---------------------------- MODULE Spec2Model ----------------------------
(***************************************************************************)
(* Model of the forecasting core of the pharma forecasting platform:       *)
(*   - ml/evaluation/backtesting.py  (rolling_window_backtest,             *)
(*                                    calculate_forecast_metrics)          *)
(*   - ml/hierarchical/reconciliation.py (HierarchicalReconciler)          *)
(* and of the forecast runs of its API:                                    *)
(*   - services/api/routers/runs.py  (create_run, list_runs, get_run,      *)
(*                                    execute_run, get_run_result)         *)
(*                                                                         *)
(* Numbers.  The code computes in IEEE doubles.  The model draws integer   *)
(* inputs and computes exactly in rationals; a float is a record           *)
(*   [k |-> "num", n |-> numerator, d |-> denominator > 0]  (reduced),     *)
(*   [k |-> "sqrt", n, d]   the square root of n/d (np.sqrt, kept exact),  *)
(*   [k |-> "inf"], [k |-> "ninf"], [k |-> "nan"]  (n = 0, d = 1).         *)
(***************************************************************************)
EXTENDS Integers, Sequences, FiniteSets, TLC

VARIABLES
    \* ---- calculate_forecast_metrics called directly
    m_actual,       \* the argument actual
    m_predicted,    \* the argument predicted
    m_result,       \* what the call produced (NotCalled before the call)
    \* ---- rolling_window_backtest
    series,         \* the argument series (values, positions 0 .. len-1)
    test_periods,   \* the argument test_periods
    window_size,    \* the argument window_size
    step_size,      \* the argument step_size
    bt_pc,          \* "start", "loop", "forecast", "done", "raised", or "idle"
    bt_i,           \* the loop variable i of line 35
    train,          \* the locals of lines 36-40 of the step under way
    predictions,    \* the list predictions
    actuals,        \* the list actuals
    bt_calls,       \* every invocation of forecast_func so far, in order
    bt_result,      \* what the call produced
    \* ---- HierarchicalReconciler
    hierarchy,      \* self.hierarchy: the parents in dict order, and their children
    bl_pc,          \* _build_levels: "start", "loop", "built" (it has returned)
    bl_current,     \* the local current_level of _build_levels
    bl_earlier,     \* <<levels>> of an earlier build of the same hierarchy, or <<>>
    levels,         \* the local levels of _build_levels, then self.levels
    horizon,        \* the length H shared by the forecast vectors of the call
    forecasts,      \* the argument forecasts: node -> vector
    proportions,    \* the argument proportions: node -> historical shares
    middle_level,   \* the argument middle_level of a middle_out call
    errors,         \* the argument errors of a mint call: node -> error series
    rc_request,     \* the argument method of reconcile_forecasts
    rc_call,        \* the method called last ("none" before a call)
    rc_method,      \* the sub-method of a top_down call
    rc_fed,         \* whether forecasts is the result of an earlier bottom_up call
    rc_result,      \* what the call produced
    \* ---- services/api/routers/runs.py
    runs_db,        \* the dict runs_db: the stored runs, in insertion order
    results_db,     \* the dict results_db: run_id -> ForecastResult
    now,            \* the clock that datetime.utcnow() reads
    api_pc,         \* for each worker thread, where it stands in execute_run
    api_response,   \* the response the step just taken sent (NoResponse if none),
                    \* with the request it answers
    api_log         \* per run id: how many requests passed the pending check,
                    \* how many forecasts were computed, how many results written

metricVars == <<m_actual, m_predicted, m_result>>

btInputs == <<series, test_periods, window_size, step_size>>

btVars == <<series, test_periods, window_size, step_size, bt_pc, bt_i, train,
            predictions, actuals, bt_calls, bt_result>>

blVars == <<bl_pc, bl_current, bl_earlier>>

kwVars == <<middle_level, errors, rc_request>>

rcInputs == <<hierarchy, blVars, levels, horizon, forecasts, proportions, kwVars>>

rcCall == <<horizon, forecasts, proportions, kwVars, rc_call, rc_method, rc_fed,
            rc_result>>

rcVars == <<hierarchy, blVars, levels, rcCall>>

apiVars == <<runs_db, results_db, now, api_pc, api_response, api_log>>

vars == <<metricVars, btVars, rcVars, apiVars>>

(***************************************************************************)
(* Bounds of the model.                                                    *)
(***************************************************************************)
MaxMetricLen == 3       \* longest actual / predicted array of a direct call
MaxMetricVal == 1       \* metric inputs are drawn from -1 .. MaxMetricVal
MaxSeriesLen == 4       \* longest backtested series
MaxSeriesVal == 1       \* series values are drawn from 0 .. MaxSeriesVal
MaxWindow == 2          \* window_size is drawn from 0 .. MaxWindow
MaxTest == 3            \* test_periods is drawn from 0 .. MaxTest
MaxStep == 2            \* step_size is drawn from 1 .. MaxStep
MaxPred == 1            \* forecast_func answers a value of 0 .. MaxPred
MaxHorizon == 2         \* the horizon H is drawn from 1 .. MaxHorizon
MaxForecastVal == 2     \* forecast values start from 1 .. MaxForecastVal
MaxPropLen == 3         \* proportion series have 1 .. MaxPropLen entries
MaxShare == 2           \* historical shares start from 1 .. MaxShare
MaxKids == 2            \* the drawn hierarchies list up to MaxKids children a parent
MaxLevels == 6          \* _build_levels is followed for up to MaxLevels levels
MaxError == 1           \* historical forecast errors are 0 .. MaxError

(***************************************************************************)
(* Exact arithmetic.                                                       *)
(***************************************************************************)
Abs(x) == IF x < 0 THEN -x ELSE x

Max(a, b) == IF a > b THEN a ELSE b

RECURSIVE Gcd(_, _)
Gcd(a, b) == IF b = 0 THEN a ELSE Gcd(b, a % b)

\* the float n/d, d # 0, reduced and with a positive denominator
Num(n, d) ==
    LET g == Gcd(Abs(n), Abs(d))
        s == IF d < 0 THEN -1 ELSE 1
    IN  [k |-> "num", n |-> (s * n) \div g, d |-> (s * d) \div g]

FromInt(x) == [k |-> "num", n |-> x, d |-> 1]

Inf == [k |-> "inf", n |-> 0, d |-> 1]

NegInf == [k |-> "ninf", n |-> 0, d |-> 1]

NaN == [k |-> "nan", n |-> 0, d |-> 1]

\* np.sqrt of a finite non-negative float, kept symbolic
Sqrt(x) == [k |-> "sqrt", n |-> x.n, d |-> x.d]

FAdd(x, y) == Num(x.n * y.d + y.n * x.d, x.d * y.d)

FMul(x, y) == Num(x.n * y.n, x.d * y.d)

\* x * c for a positive integer constant c: inf, -inf and nan stay what they are
FScale(x, c) == IF x.k = "num" THEN Num(x.n * c, x.d) ELSE x

\* numpy's float division: x / 0 is +-inf or nan (a warning, not an error)
FDiv(x, y) ==
    IF y.n # 0 THEN Num(x.n * y.d, x.d * y.n)
    ELSE IF x.n > 0 THEN Inf
    ELSE IF x.n < 0 THEN NegInf
    ELSE NaN

FAbs(x) == [x EXCEPT !.n = Abs(x.n)]

RECURSIVE SumSeq(_)
SumSeq(s) == IF s = <<>> THEN 0 ELSE Head(s) + SumSeq(Tail(s))

RECURSIVE FSumSeq(_)
FSumSeq(s) == IF s = <<>> THEN FromInt(0) ELSE FAdd(Head(s), FSumSeq(Tail(s)))

\* np.mean of an integer array: nan for the empty array (RuntimeWarning only)
MeanInt(s) == IF s = <<>> THEN NaN ELSE Num(SumSeq(s), Len(s))

\* np.mean of an array of finite floats
MeanF(s) == IF s = <<>> THEN NaN ELSE FDiv(FSumSeq(s), FromInt(Len(s)))

\* the positions from k on that the mask arr != 0 selects, in order
RECURSIVE NonzeroFrom(_, _)
NonzeroFrom(arr, k) ==
    IF k > Len(arr) THEN <<>>
    ELSE IF arr[k] # 0 THEN <<k>> \o NonzeroFrom(arr, k + 1)
    ELSE NonzeroFrom(arr, k + 1)

(***************************************************************************)
(* calculate_forecast_metrics (backtesting.py 64-106).                     *)
(***************************************************************************)
NoMetrics ==
    [mae |-> NaN, rmse |-> NaN, mape |-> NaN, wape |-> NaN, bias |-> NaN, mase |-> NaN]

NotCalled == [status |-> "not_called", error |-> "none", metrics |-> NoMetrics]

Raised(e) == [status |-> "raised", error |-> e, metrics |-> NoMetrics]

Returned(m) == [status |-> "returned", error |-> "none", metrics |-> m]

\* a length check that lets a one-element actual through, as broadcasting would
MaskFitsBroadcast(actual, predicted) ==
    Len(actual) = Len(predicted) \/ (Len(actual) = 1 /\ Len(predicted) >= 1)

\* line 71, predicted[actual != 0]: a boolean mask indexes an array of its own
\* length only; any other length raises IndexError (also when a length is 1:
\* masks do not broadcast).
MaskFits(actual, predicted) == Len(actual) = Len(predicted)

\* lines 76, 79, 94: elementwise differences of two arrays of one length
AbsErrors(actual, predicted) ==
    [i \in 1..Len(actual) |-> Abs(actual[i] - predicted[i])]

SqErrors(actual, predicted) ==
    [i \in 1..Len(actual) |-> (actual[i] - predicted[i]) * (actual[i] - predicted[i])]

Mae(actual, predicted) == MeanInt(AbsErrors(actual, predicted))

Rmse(actual, predicted) ==
    LET mse == MeanInt(SqErrors(actual, predicted))
    IN  IF mse.k = "nan" THEN NaN ELSE Sqrt(mse)

\* lines 82-85
Mape(actual, predicted) ==
    LET nz  == NonzeroFrom(actual, 1)
        ape == [j \in 1..Len(nz) |->
                   FAbs(FDiv(FromInt(actual[nz[j]] - predicted[nz[j]]),
                             FromInt(actual[nz[j]])))]
    IN  IF Len(nz) > 0 THEN FScale(MeanF(ape), 100) ELSE Inf

\* the zero test made on the nonzero entries instead of on the sum
WapeNonzeroGuard(actual, predicted) ==
    IF \E j \in 1..Len(actual) : actual[j] # 0
    THEN FScale(FDiv(FromInt(SumSeq(AbsErrors(actual, predicted))),
                     FromInt(SumSeq(actual))),
                100)
    ELSE Inf

\* the ratio left as a fraction, not turned into a percentage
WapeAsRatio(actual, predicted) ==
    IF SumSeq(actual) # 0
    THEN FDiv(FromInt(SumSeq(AbsErrors(actual, predicted))),
              FromInt(SumSeq(actual)))
    ELSE Inf

\* lines 88-91
Wape(actual, predicted) ==
    IF SumSeq(actual) # 0
    THEN FScale(FDiv(FromInt(SumSeq(AbsErrors(actual, predicted))),
                     FromInt(SumSeq(actual))),
                100)
    ELSE Inf

\* line 94
Bias(actual, predicted) ==
    MeanInt([i \in 1..Len(actual) |-> predicted[i] - actual[i]])

\* line 98
NaiveMae(actual) ==
    MeanInt([i \in 1..(Len(actual) - 1) |-> Abs(actual[i + 1] - actual[i])])

\* lines 97-104
Mase(actual, predicted) ==
    IF Len(actual) > 1
    THEN IF NaiveMae(actual).n # 0
         THEN FDiv(Mae(actual, predicted), NaiveMae(actual))
         ELSE Inf
    ELSE Inf

calculate_forecast_metrics(actual, predicted) ==
    IF ~MaskFits(actual, predicted)
    THEN Raised("IndexError")
    ELSE Returned([mae  |-> Mae(actual, predicted),
                   rmse |-> Rmse(actual, predicted),
                   mape |-> Mape(actual, predicted),
                   wape |-> Wape(actual, predicted),
                   bias |-> Bias(actual, predicted),
                   mase |-> Mase(actual, predicted)])

(***************************************************************************)
(* The arguments of direct calls of calculate_forecast_metrics.            *)
(***************************************************************************)
SeqsUpTo(S, n) == UNION {[1..k -> S] : k \in 0..n}

MetricValues == (-1)..MaxMetricVal

\* the calls worked out in the specification's text
MetricExamples ==
    { <<(<<0, 0, 0>>), (<<1, 2, 3>>)>>, <<(<<10, 10>>), (<<5, 5>>)>> }

(***************************************************************************)
(* rolling_window_backtest (backtesting.py 9-61).                          *)
(***************************************************************************)
\* the exception has no step attribute
NoStep == 0 - 1

NoTrain == [train_start |-> 0, train_end |-> 0, idx |-> <<>>,
            train_series |-> <<>>, actual_value |-> 0]

NoBtResult ==
    [status |-> "none", error |-> [type |-> "none", step |-> NoStep],
     results_df |-> <<>>, metrics |-> NotCalled]

\* the exception leaves rolling_window_backtest: nothing is returned
BtRaised(e) ==
    [status |-> "raised", error |-> e, results_df |-> <<>>, metrics |-> NotCalled]

BtReturned(df, m) ==
    [status |-> "returned", error |-> [type |-> "none", step |-> NoStep],
     results_df |-> df, metrics |-> m]

\* line 30: raise ValueError("Series too short for backtesting")
SeriesTooShort == [type |-> "ValueError: Series too short for backtesting", step |-> NoStep]

\* what forecast_func raised, as it raised it: the function is handed the window
\* and the horizon only, and no handler on the way out adds anything to it
ForecastFuncError == [type |-> "raised by forecast_func", step |-> NoStep]

PositionOutOfBounds == [type |-> "IndexError: single positional indexer is out-of-bounds",
                        step |-> NoStep]

\* the length check without the test periods
TooShortWindowOnly(s, tp, ws) == Len(s) < ws

\* line 29
TooShort(s, tp, ws) == Len(s) < ws + tp

\* a window that ends at the offset itself, counted from the start of the series
TrainEndFromStart(s, tp, k) == k

\* line 36
TrainEnd(s, tp, k) == Len(s) - tp + k

\* a window that starts one position late
TrainStartLate(te, ws) == Max(0, te - ws + 1)

\* line 37
TrainStart(te, ws) == Max(0, te - ws)

\* a slice bound of Python, resolved against a length n
SliceBound(n, b) == IF b < 0 THEN Max(0, n + b) ELSE IF b > n THEN n ELSE b

\* a slice that takes its end position too
IlocSliceIdxInclusive(n, a, b) ==
    LET lo == SliceBound(n, a)
        hi == SliceBound(n, b + 1)
    IN  [j \in 1..(IF hi > lo THEN hi - lo ELSE 0) |-> lo + j - 1]

\* the positions (from 0) that iloc[a:b] selects of n elements, in order
IlocSliceIdx(n, a, b) ==
    LET lo == SliceBound(n, a)
        hi == SliceBound(n, b)
    IN  [j \in 1..(IF hi > lo THEN hi - lo ELSE 0) |-> lo + j - 1]

\* line 39
TrainSeries(s, idx) == [j \in 1..Len(idx) |-> s[idx[j] + 1]]

\* iloc[k]: a position of -n .. n-1, a negative one counted from the end
IlocInBounds(n, k) == -n <= k /\ k < n

IlocAt(s, k) == IF k < 0 THEN s[Len(s) + k + 1] ELSE s[k + 1]

\* lines 50-56, one row of results_df
BacktestRecord(a, p) ==
    [actual    |-> a,
     predicted |-> p,
     error     |-> a - p,
     abs_error |-> Abs(a - p),
     pct_error |-> FScale(FDiv(FromInt(a - p), FromInt(a)), 100)]

ResultsDf(acts, preds) == [j \in 1..Len(acts) |-> BacktestRecord(acts[j], preds[j])]

(***************************************************************************)
(* HierarchicalReconciler (reconciliation.py 16-226).                      *)
(* A hierarchy is [keys |-> the parents in dict order,                     *)
(*                 children |-> parent -> its list of children].           *)
(***************************************************************************)
Range(f) == {f[x] : x \in DOMAIN f}

RECURSIVE Concat(_)
Concat(ss) == IF ss = <<>> THEN <<>> ELSE Head(ss) \o Concat(Tail(ss))

Reverse(s) == [j \in 1..Len(s) |-> s[Len(s) + 1 - j]]

Parents(h) == DOMAIN h.children

\* lines 32-34
AllChildren(h) == UNION {Range(h.children[p]) : p \in Parents(h)}

\* line 37
RootNodes(h) == Parents(h) \ AllChildren(h)

\* only the first node of the level is expanded
NextLevelHeadOnly(h, current_level) ==
    IF current_level # <<>> /\ Head(current_level) \in Parents(h)
    THEN h.children[Head(current_level)]
    ELSE <<>>

\* children that are already in the level being expanded are skipped
NextLevelUnseen(h, current_level) ==
    SelectSeq(Concat([j \in 1..Len(current_level) |->
                        IF current_level[j] \in Parents(h)
                        THEN h.children[current_level[j]]
                        ELSE <<>>]),
              LAMBDA c : c \notin Range(current_level))

\* lines 44-47
NextLevel(h, current_level) ==
    Concat([j \in 1..Len(current_level) |->
               IF current_level[j] \in Parents(h)
               THEN h.children[current_level[j]]
               ELSE <<>>])

\* lines 42-48
RECURSIVE LevelsFrom(_, _)
LevelsFrom(h, current_level) ==
    IF current_level = <<>> THEN <<>>
    ELSE <<current_level>> \o LevelsFrom(h, NextLevel(h, current_level))

\* the orders list(root_nodes) can give: a set of str has no fixed order
ListsOf(S) == {q \in [1..Cardinality(S) -> S] : Range(q) = S}

\* lines 30-50, for the order in which list(root_nodes) gave the roots
BuildLevels(h, root_list) == LevelsFrom(h, root_list)

NodesOf(h) == Parents(h) \cup AllChildren(h)

\* a map with one entry set (dict[key] = value)
Put(map, key, value) ==
    [n \in DOMAIN map \cup {key} |-> IF n = key THEN value ELSE map[n]]

\* np.sum(vectors, axis=0) of a non-empty list of vectors of one length
VecSum(vectors) ==
    [t \in 1..Len(vectors[1]) |-> FSumSeq([j \in 1..Len(vectors) |-> vectors[j][t]])]

\* the entries of a list of nodes that are keys of a map, in order
RECURSIVE PresentIn(_, _)
PresentIn(map, nodes) ==
    IF nodes = <<>> THEN <<>>
    ELSE IF Head(nodes) \in DOMAIN map
         THEN <<Head(nodes)>> \o PresentIn(map, Tail(nodes))
         ELSE PresentIn(map, Tail(nodes))

\* what a call leaves: the dict it returns (reconciled) and which object that
\* dict is ("new": made within the call, "caller": the dict passed in), the
\* proportions a top_down call applied, and the caller's dict as the call
\* leaves it
NoResult ==
    [status |-> "none", error |-> "none", reconciled |-> <<>>, applied |-> <<>>,
     object |-> "none", caller |-> <<>>]

RcReturned(reconciled, applied) ==
    [status |-> "returned", error |-> "none", reconciled |-> reconciled,
     applied |-> applied, object |-> "new", caller |-> <<>>]

RcRaised(e) ==
    [status |-> "raised", error |-> e, reconciled |-> <<>>, applied |-> <<>>,
     object |-> "none", caller |-> <<>>]

\* reconciled = forecasts: the name is bound to the caller's own dict
DictSame(map) == [object |-> "caller", items |-> map]

\* lines 110, 142, 177: forecasts.copy(), a new dict with the same items
DictCopy(map) == [object |-> "new", items |-> map]

\* the caller's dict after item assignments to the dict named `working` have
\* left that dict with the items `items`
CallerDict(fc, working, items) == IF working.object = "caller" THEN items ELSE fc

(***************************************************************************)
(* bottom_up_reconcile (lines 97-123).                                     *)
(***************************************************************************)
\* the parent's own vector added to the children's sum
BottomUpParentAccumulate(h, reconciled, parent) ==
    IF parent \in Parents(h)
    THEN LET present == PresentIn(reconciled, h.children[parent])
             child_forecasts == [j \in 1..Len(present) |-> reconciled[present[j]]]
         IN  IF child_forecasts # <<>>
             THEN Put(reconciled, parent,
                      IF parent \in DOMAIN reconciled
                      THEN VecSum(<<reconciled[parent]>> \o child_forecasts)
                      ELSE VecSum(child_forecasts))
             ELSE reconciled
    ELSE reconciled

\* the sum accumulated in place in the first child's array
BottomUpParentInPlace(h, reconciled, parent) ==
    IF parent \in Parents(h)
    THEN LET present == PresentIn(reconciled, h.children[parent])
             child_forecasts == [j \in 1..Len(present) |-> reconciled[present[j]]]
         IN  IF child_forecasts # <<>>
             THEN Put(Put(reconciled, parent, VecSum(child_forecasts)),
                      present[1], VecSum(child_forecasts))
             ELSE reconciled
    ELSE reconciled

\* lines 115-121: one parent of the loop
BottomUpParent(h, reconciled, parent) ==
    IF parent \in Parents(h)
    THEN LET present == PresentIn(reconciled, h.children[parent])
             child_forecasts == [j \in 1..Len(present) |-> reconciled[present[j]]]
         IN  IF child_forecasts # <<>>
             THEN Put(reconciled, parent, VecSum(child_forecasts))
             ELSE reconciled
    ELSE reconciled

\* the levels walked from the roots down
BottomUpOrderRootsFirst(lvls) == Concat(lvls)

\* lines 113-114: the nodes in the order the two loops visit them
BottomUpOrder(lvls) == Concat(Reverse(lvls))

RECURSIVE BottomUpVisit(_, _, _)
BottomUpVisit(h, reconciled, order) ==
    IF order = <<>> THEN reconciled
    ELSE BottomUpVisit(h, BottomUpParent(h, reconciled, Head(order)), Tail(order))

\* line 110: reconciled = forecasts.copy(); lines 113-123
bottom_up_reconcile(h, lvls, fc) ==
    LET working == DictCopy(fc)
        reconciled == BottomUpVisit(h, working.items, BottomUpOrder(lvls))
    IN  [RcReturned(reconciled, <<>>) EXCEPT
            !.object = working.object,
            !.caller = CallerDict(fc, working, reconciled)]

(***************************************************************************)
(* top_down_reconcile (lines 52-95).                                       *)
(***************************************************************************)
Methods == {"average", "last", "seasonal"}

\* lines 78-83: the array proportions_avg before it is normalised, or the
\* exception the lookup or numpy raises
ProportionsAvg(props, children, method) ==
    IF \E j \in 1..Len(children) : children[j] \notin DOMAIN props
    THEN [error |-> "KeyError", value |-> <<>>]
    ELSE IF method = "last"
    THEN IF \E j \in 1..Len(children) : props[children[j]] = <<>>
         THEN [error |-> "IndexError", value |-> <<>>]
         ELSE [error |-> "none",
               value |-> [j \in 1..Len(children) |->
                             FromInt(props[children[j]][Len(props[children[j]])])]]
    ELSE \* "average", and "seasonal": the mean over the children (axis 0),
         \* one entry per position of the series
         IF \E j \in 1..Len(children) :
                Len(props[children[j]]) # Len(props[children[1]])
         THEN [error |-> "ValueError", value |-> <<>>]
         ELSE [error |-> "none",
               value |-> [k \in 1..Len(props[children[1]]) |->
                             MeanInt([j \in 1..Len(children) |-> props[children[j]][k]])]]

\* line 86
Normalize(proportions_avg) ==
    [k \in 1..Len(proportions_avg) |-> FDiv(proportions_avg[k], FSumSeq(proportions_avg))]

\* line 91 / 93
Scale(vector, factor) == [t \in 1..Len(vector) |-> FMul(vector[t], factor)]

\* lines 89-93 from child number k on
RECURSIVE Distribute(_, _, _, _, _)
Distribute(acc, parent_forecast, children, proportions_avg, k) ==
    IF k > Len(children) THEN acc
    ELSE IF k > Len(proportions_avg) THEN RcRaised("IndexError")
    ELSE Distribute(
            [acc EXCEPT !.reconciled =
                Put(acc.reconciled, children[k], Scale(parent_forecast, proportions_avg[k]))],
            parent_forecast, children, proportions_avg, k + 1)

\* lines 73-93: one parent of the loop; acc is the call so far
TopDownParent(h, fc, props, method, acc, parent) ==
    IF acc.status = "raised" THEN acc
    ELSE IF ~(parent \in DOMAIN fc /\ parent \in Parents(h)) THEN acc
    ELSE IF h.children[parent] = <<>> THEN acc
    ELSE LET children == h.children[parent]
             avg      == ProportionsAvg(props, children, method)
             norm     == Normalize(avg.value)
             used     == [k \in 1..(IF Len(norm) < Len(children)
                                    THEN Len(norm) ELSE Len(children)) |-> norm[k]]
         IN  IF avg.error # "none" THEN RcRaised(avg.error)
             ELSE Distribute([acc EXCEPT !.applied = Put(acc.applied, parent, used)],
                             fc[parent], children, norm, 1)

RECURSIVE TopDownVisit(_, _, _, _, _, _)
TopDownVisit(h, fc, props, method, acc, order) ==
    IF order = <<>> THEN acc
    ELSE TopDownVisit(h, fc, props, method,
                      TopDownParent(h, fc, props, method, acc, Head(order)),
                      Tail(order))

\* line 69: reconciled = {}; lines 71-95
top_down_reconcile(h, lvls, fc, props, method) ==
    [TopDownVisit(h, fc, props, method, RcReturned(<<>>, <<>>), Concat(lvls))
        EXCEPT !.caller = fc]

(***************************************************************************)
(* middle_out_reconcile (lines 125-155).                                   *)
(***************************************************************************)
\* lines 145-150: the children of middle_level that have a forecast are
\* summed into middle_level
MiddleOutPivot(h, reconciled, middle) ==
    IF middle \in Parents(h)
    THEN LET present == PresentIn(reconciled, h.children[middle])
             child_forecasts == [j \in 1..Len(present) |-> reconciled[present[j]]]
         IN  IF child_forecasts # <<>>
             THEN Put(reconciled, middle, VecSum(child_forecasts))
             ELSE reconciled
    ELSE reconciled

\* line 142: reconciled = forecasts.copy(); lines 145-150; line 153: the name
\* reconciled is bound anew to what top_down_reconcile returns, called with
\* its default method "average"
middle_out_reconcile(h, lvls, fc, middle, props) ==
    LET working == DictCopy(fc)
        summed == MiddleOutPivot(h, working.items, middle)
    IN  [top_down_reconcile(h, lvls, summed, props, "average")
            EXCEPT !.caller = CallerDict(fc, working, summed)]

(***************************************************************************)
(* mint_reconcile (lines 157-198).  The weights hold the constant 1e-8 of  *)
(* line 183: it is kept as an indeterminate eps, and a weight is a         *)
(* quotient of two polynomials in eps with integer coefficients (a list,   *)
(* the constant coefficient first).  What is equal for every eps is equal  *)
(* for 1e-8.                                                                *)
(***************************************************************************)
RECURSIVE PTrim(_)
PTrim(p) ==
    IF p = <<>> THEN <<>>
    ELSE IF p[Len(p)] = 0 THEN PTrim(SubSeq(p, 1, Len(p) - 1))
    ELSE p

PCoef(p, j) == IF j \in DOMAIN p THEN p[j] ELSE 0

PAdd(p, q) == PTrim([j \in 1..Max(Len(p), Len(q)) |-> PCoef(p, j) + PCoef(q, j)])

RECURSIVE PConv(_, _, _, _)
PConv(p, q, k, j) ==
    IF j > Len(p) THEN 0
    ELSE PCoef(p, j) * PCoef(q, k + 1 - j) + PConv(p, q, k, j + 1)

PMul(p, q) ==
    IF p = <<>> \/ q = <<>> THEN <<>>
    ELSE PTrim([k \in 1..(Len(p) + Len(q) - 1) |-> PConv(p, q, k, 1)])

PScale(p, c) == PTrim([j \in 1..Len(p) |-> c * p[j]])

PShift(p, n) == [j \in 1..(Len(p) + n) |-> IF j <= n THEN 0 ELSE p[j - n]]

PSub(p, q) == PAdd(p, PScale(q, 0 - 1))

\* the greatest common divisor of the coefficients
RECURSIVE PContent(_)
PContent(p) == IF p = <<>> THEN 0 ELSE Gcd(Abs(Head(p)), PContent(Tail(p)))

PPrimitive(p) == IF p = <<>> THEN <<>> ELSE [j \in 1..Len(p) |-> p[j] \div PContent(p)]

\* a multiple of the remainder of p by q # 0
RECURSIVE PRem(_, _)
PRem(p, q) ==
    IF Len(p) < Len(q) THEN p
    ELSE PRem(PPrimitive(PSub(PScale(p, q[Len(q)]),
                              PShift(PScale(q, p[Len(p)]), Len(p) - Len(q)))), q)

RECURSIVE PGcd(_, _)
PGcd(p, q) == IF q = <<>> THEN PPrimitive(p) ELSE PGcd(q, PRem(p, q))

\* p / q for a divisor q of p
RECURSIVE PQuot(_, _)
PQuot(p, q) ==
    IF Len(p) < Len(q) THEN <<>>
    ELSE LET c == p[Len(p)] \div q[Len(q)]
             n == Len(p) - Len(q)
         IN  PAdd(PShift(<<c>>, n), PQuot(PSub(p, PShift(PScale(q, c), n)), q))

\* the quotient num / den in lowest terms, the leading coefficient of den
\* positive
EpsVal(num, den) ==
    LET g == PGcd(PTrim(num), PTrim(den))
        n == PQuot(PTrim(num), g)
        d == PQuot(PTrim(den), g)
        c == Gcd(PContent(n), PContent(d)) * (IF d[Len(d)] < 0 THEN 0 - 1 ELSE 1)
    IN  [k |-> "eps",
         num |-> [j \in 1..Len(n) |-> n[j] \div c],
         den |-> [j \in 1..Len(d) |-> d[j] \div c]]

EFromFloat(x) == EpsVal(<<x.n>>, <<x.d>>)

EZero == EpsVal(<<>>, <<1>>)

EOne == EpsVal(<<1>>, <<1>>)

\* line 183: 1e-8
Epsilon == EpsVal(<<0, 1>>, <<1>>)

EAdd(x, y) == EpsVal(PAdd(PMul(x.num, y.den), PMul(y.num, x.den)), PMul(x.den, y.den))

EMul(x, y) == EpsVal(PMul(x.num, y.num), PMul(x.den, y.den))

EDiv(x, y) == EpsVal(PMul(x.num, y.den), PMul(x.den, y.num))

\* the same value, whatever the two quotients look like
EEq(x, y) == PMul(x.num, y.den) = PMul(y.num, x.den)

FSub(x, y) == Num(x.n * y.d - y.n * x.d, x.d * y.d)

\* np.var of a non-empty array of integers: mean(abs(x - x.mean()) ** 2)
Var(error) ==
    LET mean == MeanInt(error)
        deviations == [j \in 1..Len(error) |-> FAbs(FSub(FromInt(error[j]), mean))]
    IN  MeanF([j \in 1..Len(error) |-> FMul(deviations[j], deviations[j])])

\* every non-empty series weighs 1.0 / np.var(error), without the constant
WeightNoEpsilon(error) ==
    IF Len(error) > 0 /\ Var(error).n # 0
    THEN EDiv(EOne, EFromFloat(Var(error)))
    ELSE EOne

\* lines 182-185
Weight(error) ==
    IF Len(error) > 0
    THEN EDiv(EOne, EAdd(EFromFloat(Var(error)), Epsilon))
    ELSE EOne

\* line 188: sum(weights.values())
RECURSIVE ESum(_, _)
ESum(weights, nodes) ==
    IF nodes = {} THEN EZero
    ELSE LET n == CHOOSE m \in nodes : TRUE
         IN  EAdd(weights[n], ESum(weights, nodes \ {n}))

\* lines 189-190
NormalizeWeights(weights) ==
    LET total_weight == ESum(weights, DOMAIN weights)
    IN  [node \in DOMAIN weights |-> EDiv(weights[node], total_weight)]

\* line 196: reconciled[node] * weights[node], a new array
ScaleBy(vec, w) == [t \in DOMAIN vec |-> EMul(EFromFloat(vec[t]), w)]

\* line 177: reconciled = forecasts.copy(); lines 180-198.  The weights are
\* kept in the field applied.
mint_reconcile(fc, errs) ==
    LET working == DictCopy(fc)
        weights == NormalizeWeights([node \in DOMAIN errs |-> Weight(errs[node])])
        reconciled == [node \in DOMAIN working.items |->
                          IF node \in DOMAIN weights
                          THEN ScaleBy(working.items[node], weights[node])
                          ELSE working.items[node]]
    IN  [RcReturned(reconciled, weights) EXCEPT
            !.object = working.object,
            !.caller = CallerDict(fc, working, reconciled)]

(***************************************************************************)
(* reconcile_forecasts (lines 200-226).                                    *)
(***************************************************************************)
\* lines 9-13: the values of ReconciliationMethod
ReconciliationMethod == {"top_down", "bottom_up", "middle_out", "mint"}

\* a method that is not of the enumeration is handled as bottom_up, the
\* default of the parameter
reconcile_with_default(h, lvls, fc, method, kwargs) ==
    IF method = "top_down"
    THEN top_down_reconcile(h, lvls, fc, kwargs.proportions, kwargs.method)
    ELSE IF method = "middle_out"
    THEN middle_out_reconcile(h, lvls, fc, kwargs.middle_level, kwargs.proportions)
    ELSE IF method = "mint"
    THEN mint_reconcile(fc, kwargs.errors)
    ELSE bottom_up_reconcile(h, lvls, fc)

\* lines 217-226; kwargs holds the keyword arguments of the strategy called
reconcile_forecasts(h, lvls, fc, method, kwargs) ==
    IF method = "top_down"
    THEN top_down_reconcile(h, lvls, fc, kwargs.proportions, kwargs.method)
    ELSE IF method = "bottom_up"
    THEN bottom_up_reconcile(h, lvls, fc)
    ELSE IF method = "middle_out"
    THEN middle_out_reconcile(h, lvls, fc, kwargs.middle_level, kwargs.proportions)
    ELSE IF method = "mint"
    THEN mint_reconcile(fc, kwargs.errors)
    ELSE [RcRaised("ValueError") EXCEPT !.caller = fc]

(***************************************************************************)
(* The hierarchies and the calls of the model.                             *)
(***************************************************************************)
EmptyMap == <<>>

\* a hierarchy from its parents, in dict order, and their lists of children
MakeHierarchy(keys, kids) ==
    [keys |-> keys,
     children |-> [p \in Range(keys) |->
                      kids[CHOOSE j \in 1..Len(keys) : keys[j] = p]]]

TwoLeaves == MakeHierarchy(<<"Total">>, << <<"A", "B">> >>)

ThreeLeaves == MakeHierarchy(<<"Total">>, << <<"A", "B", "C">> >>)

ThreeLevels == MakeHierarchy(<<"Total", "A">>, << <<"A", "B">>, <<"A1", "A2">> >>)

\* the same tree with the lower parent first in the dict
ThreeLevelsLowerFirst ==
    MakeHierarchy(<<"A", "Total">>, << <<"A1", "A2">>, <<"A", "B">> >>)

Chains == MakeHierarchy(<<"Total", "A", "B">>, << <<"A", "B">>, <<"A1">>, <<"B1">> >>)

TwoRoots == MakeHierarchy(<<"Total", "Other">>, << <<"A", "B">>, <<"C">> >>)

Childless == MakeHierarchy(<<"Total">>, << <<>> >>)

NoParents == MakeHierarchy(<<>>, <<>>)

SmallHierarchies == {TwoLeaves}

Hierarchies ==
    {TwoLeaves, ThreeLeaves, ThreeLevels, ThreeLevelsLowerFirst, Chains, TwoRoots,
     Childless, NoParents}

\* a node the hierarchy does not know
Stranger == "X"

\* the vector a, a+1, ... of length n
Ramp(a, n) == [t \in 1..n |-> a + t - 1]

FVec(v) == [t \in 1..Len(v) |-> FromInt(v[t])]

\* every map of a subset of nodes to vectors of vecs
MapsInto(nodes, vecs) == UNION {[S -> vecs] : S \in SUBSET nodes}

\* the forecast maps of horizon H: every vector over 1 .. MaxForecastVal for a
\* small hierarchy; for the others a ramp per node, the stranger included
ForecastMaps(h, H) ==
    IF h \in SmallHierarchies
    THEN MapsInto(NodesOf(h), {FVec(v) : v \in [1..H -> 1..MaxForecastVal]})
             \cup MapsInto(NodesOf(h) \cup {Stranger},
                           {FVec(Ramp(a, H)) : a \in 1..MaxForecastVal})
    ELSE MapsInto(NodesOf(h) \cup {Stranger},
                  {FVec(Ramp(a, H)) : a \in 1..MaxForecastVal})

\* the call worked out in the specification's text
BottomUpExample ==
    [hierarchy |-> TwoLeaves, horizon |-> 2,
     forecasts |-> [n \in {"A", "B"} |->
                       IF n = "A" THEN FVec(<<10, 20>>) ELSE FVec(<<5, 15>>)]]

(***************************************************************************)
(* The parts of the state a specification does not use stay as they are    *)
(* here.                                                                   *)
(***************************************************************************)
BtIdle ==
    /\ series = <<>> /\ test_periods = 0 /\ window_size = 0 /\ step_size = 1
    /\ bt_pc = "idle" /\ bt_i = 0 /\ train = NoTrain
    /\ predictions = <<>> /\ actuals = <<>> /\ bt_calls = <<>>
    /\ bt_result = NoBtResult

RcIdle ==
    /\ hierarchy = NoParents /\ levels = <<>> /\ horizon = 0
    /\ bl_pc = "built" /\ bl_current = <<>> /\ bl_earlier = <<>>
    /\ forecasts = EmptyMap /\ proportions = EmptyMap
    /\ rc_call = "idle" /\ rc_method = "none" /\ rc_fed = FALSE
    /\ middle_level = "none" /\ errors = EmptyMap /\ rc_request = "none"
    /\ rc_result = NoResult

(***************************************************************************)
(* Calls of rolling_window_backtest.                                       *)
(***************************************************************************)
(***************************************************************************)
(* services/api/routers/runs.py: the forecast runs of the API.              *)
(*                                                                         *)
(* The handlers are plain def functions, which FastAPI runs on the threads *)
(* of a pool: requests are served side by side on the module's two dicts.  *)
(* A handler that touches the dicts once is one step; execute_run is cut   *)
(* at each of its reads and writes of the run and of the dicts.            *)
(***************************************************************************)
NoValue == "None"

\* models.py, lines 7-11
RunStatus == {"pending", "running", "completed", "failed"}

\* models.py, lines 14-17
ModelType == {"arima", "xgboost", "ensemble"}

\* the values uuid.uuid4() can give (line 35)
RunIdOrder == <<"run-1", "run-2">>

RunIds == {RunIdOrder[j] : j \in DOMAIN RunIdOrder}

\* the id that no run of db has yet
uuid4(db) ==
    IF Len(db) < Len(RunIdOrder) THEN RunIdOrder[Len(db) + 1] ELSE NoValue

\* the threads of the pool
Workers == {"w1", "w2"}

\* bodies of POST /runs/ that pass the validation of CreateRunRequest
CreateRequests ==
    { [brand_id |-> "BRAND_A", model_type |-> "arima",    horizon |-> 12],
      [brand_id |-> "BRAND_B", model_type |-> "xgboost",  horizon |-> 1],
      [brand_id |-> "BRAND_A", model_type |-> "ensemble", horizon |-> 104] }

Brands == {r.brand_id : r \in CreateRequests}

\* a run that is born running
ForecastRunStarted(run_id, req, created_at, mlflow_run_id) ==
    [run_id        |-> run_id,
     brand_id      |-> req.brand_id,
     model_type    |-> req.model_type,
     horizon       |-> req.horizon,
     status        |-> "running",
     created_at    |-> created_at,
     completed_at  |-> NoValue,
     mlflow_run_id |-> mlflow_run_id]

\* models.py, lines 20-30; status and completed_at take their defaults
ForecastRun(run_id, req, created_at, mlflow_run_id) ==
    [run_id        |-> run_id,
     brand_id      |-> req.brand_id,
     model_type    |-> req.model_type,
     horizon       |-> req.horizon,
     status        |-> "pending",
     created_at    |-> created_at,
     completed_at  |-> NoValue,
     mlflow_run_id |-> mlflow_run_id]

\* lines 115-121; points names the request that computed them
ForecastResult(run, points) ==
    [run_id     |-> run.run_id,
     brand_id   |-> run.brand_id,
     model_type |-> run.model_type,
     horizon    |-> run.horizon,
     points     |-> points]

\* a response, with the handler and the arguments it answers
Response(op, args, code, body) == [op |-> op, args |-> args, code |-> code, body |-> body]

NoResponse == Response("none", <<>>, 0, NoValue)

\* raise HTTPException(status_code=..., detail=...)
HTTPException(op, args, code, detail) == Response(op, args, code, detail)

\* run_id in runs_db
HasRun(db, run_id) == \E j \in 1..Len(db) : db[j].run_id = run_id

\* runs_db[run_id]
RunOf(db, run_id) == db[CHOOSE j \in 1..Len(db) : db[j].run_id = run_id]

\* runs_db[run_id] = run: a new key goes last, a known key keeps its place
StoreRun(db, run) ==
    IF HasRun(db, run.run_id)
    THEN [j \in 1..Len(db) |-> IF db[j].run_id = run.run_id THEN run ELSE db[j]]
    ELSE Append(db, run)

\* run.status = ...; runs_db[run_id] = run (lines 88-89, 125-127, 132-133).
\* run is the object the dict holds, so the attribute is what changes
WithStatus(db, run_id, status) ==
    [j \in 1..Len(db) |->
        IF db[j].run_id = run_id THEN [db[j] EXCEPT !.status = status] ELSE db[j]]

\* run.completed_at = datetime.utcnow() (line 126)
WithCompletedAt(db, run_id, t) ==
    [j \in 1..Len(db) |->
        IF db[j].run_id = run_id THEN [db[j] EXCEPT !.completed_at = t] ELSE db[j]]

\* [r for r in runs if r.<field> == value]
RECURSIVE FilterRuns(_, _, _)
FilterRuns(runs, field, value) ==
    IF runs = <<>> THEN <<>>
    ELSE IF runs[1][field] = value
         THEN <<runs[1]>> \o FilterRuns(Tail(runs), field, value)
         ELSE FilterRuns(Tail(runs), field, value)

\* sorted(runs, key=created_at, reverse=True): latest first, equal keys in
\* the order they came in
SortedLatestFirst(runs) ==
    LET Before(j) == Cardinality({q \in 1..Len(runs) :
                         \/ runs[q].created_at > runs[j].created_at
                         \/ runs[q].created_at = runs[j].created_at /\ q < j})
    IN  [k \in 1..Len(runs) |->
            runs[CHOOSE j \in 1..Len(runs) : Before(j) = k - 1]]

\* lines 58-66; a filter left out is None
list_runs(db, brand_id, status) ==
    LET all     == db
        byBrand == IF brand_id # NoValue THEN FilterRuns(all, "brand_id", brand_id)
                   ELSE all
        byBoth  == IF status # NoValue THEN FilterRuns(byBrand, "status", status)
                   ELSE byBrand
    IN  Response("list_runs", <<brand_id, status>>, 200, SortedLatestFirst(byBoth))

\* lines 69-74
get_run(db, run_id) ==
    IF ~HasRun(db, run_id)
    THEN HTTPException("get_run", <<run_id>>, 404, "Run not found")
    ELSE Response("get_run", <<run_id>>, 200, RunOf(db, run_id))

\* lines 137-142
get_run_result(rdb, run_id) ==
    IF run_id \notin DOMAIN rdb
    THEN HTTPException("get_run_result", <<run_id>>, 404, "Result not found")
    ELSE Response("get_run_result", <<run_id>>, 200, rdb[run_id])

IdleWorker == [pc |-> "idle", run_id |-> NoValue]

NoLog == [passed |-> 0, forecasts |-> 0, written |-> 0]

\* the module as imported: both dicts empty, no request under way
ApiIdle ==
    /\ runs_db = <<>> /\ results_db = EmptyMap /\ now = 0
    /\ api_pc = [w \in Workers |-> IdleWorker]
    /\ api_response = NoResponse
    /\ api_log = [r \in RunIds |-> NoLog]

SeriesValues == 0..MaxSeriesVal

PredValues == 0..MaxPred

\* the call worked out in the specification's text
BacktestExample ==
    [series |-> <<10, 11, 12, 13, 14, 15, 16>>, window_size |-> 3,
     test_periods |-> 2, step_size |-> 1]

InitBacktest ==
    /\ \/ /\ series \in SeqsUpTo(SeriesValues, MaxSeriesLen)
          /\ test_periods \in 0..MaxTest
          /\ window_size \in 0..MaxWindow
          /\ step_size \in 1..MaxStep
       \/ /\ series = BacktestExample.series
          /\ test_periods = BacktestExample.test_periods
          /\ window_size = BacktestExample.window_size
          /\ step_size = BacktestExample.step_size
    /\ bt_pc = "start" /\ bt_i = 0 /\ train = NoTrain
    /\ predictions = <<>> /\ actuals = <<>> /\ bt_calls = <<>>
    /\ bt_result = NoBtResult
    /\ m_actual = <<>> /\ m_predicted = <<>> /\ m_result = NotCalled
    /\ RcIdle
    /\ ApiIdle

\* lines 29-35: the length check, then the lists and the loop variable
BtStart ==
    /\ bt_pc = "start"
    /\ IF TooShort(series, test_periods, window_size)
       THEN /\ bt_pc' = "raised"
            /\ bt_result' = BtRaised(SeriesTooShort)
       ELSE /\ bt_pc' = "loop"
            /\ UNCHANGED bt_result
    /\ bt_i' = 0 /\ predictions' = <<>> /\ actuals' = <<>>
    /\ UNCHANGED <<btInputs, train, bt_calls, metricVars, rcVars, apiVars>>

\* a step whose window is continued with the predictions made so far
BtLoopOnPredictions ==
    /\ bt_pc = "loop"
    /\ bt_i < test_periods
    /\ LET te  == TrainEnd(series, test_periods, bt_i)
           ts  == TrainStart(te, window_size)
           idx == IlocSliceIdx(Len(series), ts, te)
       IN  /\ train' = [train_start |-> ts, train_end |-> te, idx |-> idx,
                        train_series |-> TrainSeries(series, idx) \o predictions,
                        actual_value |-> IlocAt(series, te)]
           /\ bt_calls' = Append(bt_calls,
                              [step |-> bt_i, train_end |-> te, idx |-> idx,
                               train_series |-> TrainSeries(series, idx) \o predictions,
                               horizon |-> 1, outcome |-> "running"])
           /\ bt_pc' = "forecast"
           /\ UNCHANGED bt_result
    /\ UNCHANGED <<btInputs, bt_i, predictions, actuals, metricVars, rcVars, apiVars>>

\* lines 35-43: one more step of the range; the window and the actual are cut
\* and forecast_func is called with the window and horizon 1
BtLoop ==
    /\ bt_pc = "loop"
    /\ bt_i < test_periods
    /\ LET te  == TrainEnd(series, test_periods, bt_i)
           ts  == TrainStart(te, window_size)
           idx == IlocSliceIdx(Len(series), ts, te)
       IN  IF IlocInBounds(Len(series), te)
           THEN /\ train' = [train_start |-> ts, train_end |-> te, idx |-> idx,
                             train_series |-> TrainSeries(series, idx),
                             actual_value |-> IlocAt(series, te)]
                /\ bt_calls' = Append(bt_calls,
                                   [step |-> bt_i, train_end |-> te, idx |-> idx,
                                    train_series |-> TrainSeries(series, idx),
                                    horizon |-> 1, outcome |-> "running"])
                /\ bt_pc' = "forecast"
                /\ UNCHANGED bt_result
           ELSE /\ bt_pc' = "raised"
                /\ bt_result' = BtRaised(PositionOutOfBounds)
                /\ UNCHANGED <<train, bt_calls>>
    /\ UNCHANGED <<btInputs, bt_i, predictions, actuals, metricVars, rcVars, apiVars>>

\* a range that goes on by one whatever step_size is
BtForecastReturnsStepOne ==
    /\ bt_pc = "forecast"
    /\ \E yhat \in PredValues :
          /\ predictions' = Append(predictions, yhat)
          /\ bt_calls' = [bt_calls EXCEPT ![Len(bt_calls)].outcome = "returned"]
    /\ actuals' = Append(actuals, train.actual_value)
    /\ bt_i' = bt_i + 1
    /\ bt_pc' = "loop"
    /\ UNCHANGED <<btInputs, train, bt_result, metricVars, rcVars, apiVars>>

\* lines 43-47, and the range's next value: forecast_func answers yhat
BtForecastReturns ==
    /\ bt_pc = "forecast"
    /\ \E yhat \in PredValues :
          /\ predictions' = Append(predictions, yhat)
          /\ bt_calls' = [bt_calls EXCEPT ![Len(bt_calls)].outcome = "returned"]
    /\ actuals' = Append(actuals, train.actual_value)
    /\ bt_i' = bt_i + step_size
    /\ bt_pc' = "loop"
    /\ UNCHANGED <<btInputs, train, bt_result, metricVars, rcVars, apiVars>>

\* a handler that swallows the failure of a step and goes on with the next
BtForecastSwallowed ==
    /\ bt_pc = "forecast"
    /\ bt_calls' = [bt_calls EXCEPT ![Len(bt_calls)].outcome = "raised"]
    /\ bt_i' = bt_i + step_size
    /\ bt_pc' = "loop"
    /\ UNCHANGED <<btInputs, train, predictions, actuals, bt_result, metricVars, rcVars, apiVars>>

\* line 43: forecast_func raises; no handler is in the way (lines 35-47 hold no
\* try), so its exception ends the call
BtForecastRaises ==
    /\ bt_pc = "forecast"
    /\ bt_calls' = [bt_calls EXCEPT ![Len(bt_calls)].outcome = "raised"]
    /\ bt_pc' = "raised"
    /\ bt_result' = BtRaised(ForecastFuncError)
    /\ UNCHANGED <<btInputs, bt_i, train, predictions, actuals, metricVars, rcVars, apiVars>>

\* lines 49-61: the range is used up; the table, the metrics, the return
BtFinish ==
    /\ bt_pc = "loop"
    /\ bt_i >= test_periods
    /\ LET m == calculate_forecast_metrics(actuals, predictions)
       IN  IF m.status = "raised"
           THEN /\ bt_pc' = "raised"
                /\ bt_result' = BtRaised([type |-> m.error, step |-> NoStep])
           ELSE /\ bt_pc' = "done"
                /\ bt_result' = BtReturned(ResultsDf(actuals, predictions), m)
    /\ UNCHANGED <<btInputs, bt_i, train, predictions, actuals, bt_calls, metricVars, rcVars, apiVars>>

NextBacktest ==
    \/ BtStart
    \/ BtLoop
    \/ BtForecastReturns
    \/ BtForecastRaises
    \/ BtFinish

SpecBacktest == InitBacktest /\ [][NextBacktest]_vars

(***************************************************************************)
(* HierarchicalReconciler(hierarchy): _build_levels followed step by step   *)
(* (lines 19-50), for every dict a caller can pass, trees or not.           *)
(***************************************************************************)
BuildNodes == {"Total", "A", "B"}

\* the lists of up to n distinct nodes
ChildLists(n) ==
    {q \in UNION {[1..k -> BuildNodes] : k \in 0..n} :
        \A j, k \in DOMAIN q : q[j] = q[k] => j = k}

\* the keys of a drawn hierarchy, in the dict order Total, A, B
RECURSIVE KeysAmong(_, _)
KeysAmong(S, names) ==
    IF names = <<>> THEN <<>>
    ELSE IF Head(names) \in S
         THEN <<Head(names)>> \o KeysAmong(S, Tail(names))
         ELSE KeysAmong(S, Tail(names))

\* every hierarchy over Total, A, B: cycles, self loops and shared children
\* included
DrawnHierarchies ==
    UNION {{[keys |-> KeysAmong(S, <<"Total", "A", "B">>), children |-> kids]
               : kids \in [S -> ChildLists(MaxKids)]}
              : S \in SUBSET BuildNodes}

\* four nodes: C is listed under A and under B, both below Total
Diamond == MakeHierarchy(<<"Total", "A", "B">>, << <<"A", "B">>, <<"C">>, <<"C">> >>)

\* a cycle A -> B -> A below the root Total
CycleBelowRoot ==
    MakeHierarchy(<<"Total", "A", "B">>, << <<"A">>, <<"B">>, <<"A">> >>)

\* a cycle A -> B -> A beside the tree Total -> C
CycleBesideTree ==
    MakeHierarchy(<<"Total", "A", "B">>, << <<"C">>, <<"B">>, <<"A">> >>)

BuildHierarchies ==
    Hierarchies \cup DrawnHierarchies \cup {Diamond, CycleBelowRoot, CycleBesideTree}

InitBuild ==
    /\ hierarchy \in BuildHierarchies
    /\ bl_pc = "start" /\ bl_current = <<>> /\ levels = <<>> /\ bl_earlier = <<>>
    /\ horizon = 0 /\ forecasts = EmptyMap /\ proportions = EmptyMap
    /\ rc_call = "idle" /\ rc_method = "none" /\ rc_fed = FALSE
    /\ middle_level = "none" /\ errors = EmptyMap /\ rc_request = "none"
    /\ rc_result = NoResult
    /\ BtIdle
    /\ m_actual = <<>> /\ m_predicted = <<>> /\ m_result = NotCalled
    /\ ApiIdle

\* lines 32-40: the set of roots, and the list made of it
BuildStart ==
    /\ bl_pc = "start"
    /\ \E root_list \in ListsOf(RootNodes(hierarchy)) : bl_current' = root_list
    /\ levels' = <<>>
    /\ bl_pc' = "loop"
    /\ UNCHANGED <<hierarchy, bl_earlier, rcCall, btVars, metricVars, apiVars>>

\* lines 42-48: one turn of the while loop
BuildExpand ==
    /\ bl_pc = "loop"
    /\ bl_current # <<>>
    /\ Len(levels) < MaxLevels
    /\ levels' = Append(levels, bl_current)
    /\ bl_current' = NextLevel(hierarchy, bl_current)
    /\ UNCHANGED <<hierarchy, bl_pc, bl_earlier, rcCall, btVars, metricVars, apiVars>>

\* lines 42 and 50, and line 28: the loop ends, self.levels is set
BuildReturn ==
    /\ bl_pc = "loop"
    /\ bl_current = <<>>
    /\ bl_pc' = "built"
    /\ UNCHANGED <<hierarchy, bl_current, bl_earlier, levels, rcCall, btVars,
                   metricVars, apiVars>>

\* another HierarchicalReconciler(hierarchy) of the same dict, in this run of
\* the interpreter or in another one
BuildAgain ==
    /\ bl_pc = "built"
    /\ bl_earlier = <<>>
    /\ bl_earlier' = <<levels>>
    /\ bl_pc' = "start" /\ bl_current' = <<>> /\ levels' = <<>>
    /\ UNCHANGED <<hierarchy, rcCall, btVars, metricVars, apiVars>>

NextBuild == BuildStart \/ BuildExpand \/ BuildReturn \/ BuildAgain

SpecBuild == InitBuild /\ [][NextBuild]_vars

(***************************************************************************)
(* Calls of bottom_up_reconcile.                                           *)
(***************************************************************************)
\* __init__ (lines 19-28) has run; the caller holds a forecast map
InitBottomUp ==
    /\ \/ /\ hierarchy \in Hierarchies
          /\ horizon \in 1..MaxHorizon
          /\ forecasts \in ForecastMaps(hierarchy, horizon)
       \/ /\ hierarchy = BottomUpExample.hierarchy
          /\ horizon = BottomUpExample.horizon
          /\ forecasts = BottomUpExample.forecasts
    /\ levels \in {BuildLevels(hierarchy, root_list) : root_list \in ListsOf(RootNodes(hierarchy))}
    /\ bl_pc = "built" /\ bl_current = <<>> /\ bl_earlier = <<>>
    /\ proportions = EmptyMap
    /\ rc_call = "none" /\ rc_method = "none" /\ rc_fed = FALSE
    /\ middle_level = "none" /\ errors = EmptyMap /\ rc_request = "none"
    /\ rc_result = NoResult
    /\ BtIdle
    /\ m_actual = <<>> /\ m_predicted = <<>> /\ m_result = NotCalled
    /\ ApiIdle

\* reconcile_forecasts(forecasts, BOTTOM_UP), lines 219-220 and 97-123
CallBottomUp ==
    /\ rc_call = "none"
    /\ rc_call' = "bottom_up"
    /\ rc_result' = bottom_up_reconcile(hierarchy, levels, forecasts)
    /\ forecasts' = rc_result'.caller
    /\ UNCHANGED <<hierarchy, blVars, levels, horizon, proportions, kwVars, rc_method,
                   rc_fed, btVars, metricVars, apiVars>>

\* the caller takes the map a bottom_up call returned as its forecast map
FeedBack ==
    /\ rc_call = "bottom_up"
    /\ rc_result.status = "returned"
    /\ ~rc_fed
    /\ forecasts' = rc_result.reconciled
    /\ rc_fed' = TRUE
    /\ rc_call' = "none"
    /\ rc_result' = NoResult
    /\ UNCHANGED <<hierarchy, blVars, levels, horizon, proportions, kwVars, rc_method,
                   btVars, metricVars, apiVars>>

NextBottomUp == CallBottomUp \/ FeedBack

SpecBottomUp == InitBottomUp /\ [][NextBottomUp]_vars

(***************************************************************************)
(* Calls of top_down_reconcile.                                            *)
(***************************************************************************)
NodeNames == <<"Total", "Other", "A", "B", "C", "A1", "A2", "B1">>

NodeIndex(n) == CHOOSE j \in 1..Len(NodeNames) : NodeNames[j] = n

\* forecast maps of horizon H whose vectors differ from node to node
DistinctForecastMaps(h, H) ==
    UNION {{[n \in S |-> FVec(Ramp(a + NodeIndex(n), H))] : a \in 1..MaxForecastVal}
              : S \in SUBSET NodesOf(h)}

\* proportion maps with a series of L positive shares for every child: every
\* series over 1 .. MaxShare for a small hierarchy, a ramp per child otherwise
ProportionMaps(h, L) ==
    IF h \in SmallHierarchies
    THEN [AllChildren(h) -> [1..L -> 1..MaxShare]]
    ELSE [AllChildren(h) -> {Ramp(a, L) : a \in 1..MaxShare}]

InitTopDown ==
    /\ hierarchy \in Hierarchies
    /\ horizon = MaxHorizon
    /\ forecasts \in DistinctForecastMaps(hierarchy, horizon)
    /\ \E L \in 1..MaxPropLen : proportions \in ProportionMaps(hierarchy, L)
    /\ levels \in {BuildLevels(hierarchy, root_list) : root_list \in ListsOf(RootNodes(hierarchy))}
    /\ bl_pc = "built" /\ bl_current = <<>> /\ bl_earlier = <<>>
    /\ rc_call = "none" /\ rc_method = "none" /\ rc_fed = FALSE
    /\ middle_level = "none" /\ errors = EmptyMap /\ rc_request = "none"
    /\ rc_result = NoResult
    /\ BtIdle
    /\ m_actual = <<>> /\ m_predicted = <<>> /\ m_result = NotCalled
    /\ ApiIdle

\* reconcile_forecasts(forecasts, TOP_DOWN, proportions=..., method=...),
\* lines 217-218 and 52-95
CallTopDown ==
    /\ rc_call = "none"
    /\ \E method \in Methods :
          /\ rc_method' = method
          /\ rc_result' = top_down_reconcile(hierarchy, levels, forecasts,
                                             proportions, method)
    /\ rc_call' = "top_down"
    /\ forecasts' = rc_result'.caller
    /\ UNCHANGED <<hierarchy, blVars, levels, horizon, proportions, kwVars, rc_fed,
                   btVars, metricVars, apiVars>>

NextTopDown == CallTopDown

SpecTopDown == InitTopDown /\ [][NextTopDown]_vars

(***************************************************************************)
(* Calls of reconcile_forecasts, with every method and its keyword          *)
(* arguments.                                                               *)
(***************************************************************************)
ReconcileHierarchies == {TwoLeaves, ThreeLevels, TwoRoots, NoParents}

\* forecast maps of horizon H for the nodes of a subset, a vector of its own
\* for every node
SubsetForecastMaps(h, H) ==
    {[n \in S |-> FVec(Ramp(1 + NodeIndex(n), H))] : S \in SUBSET NodesOf(h)}

\* a value of the parameter method that is not of ReconciliationMethod
UnknownMethod == "optimal"

\* proportion maps in which children may lack their entry: L shares a child,
\* rising from a, or from a + 1 for every other node
PartialProportionMaps(h, L) ==
    UNION {{[c \in S |-> Ramp(a + (NodeIndex(c) % 2), L)] : a \in 1..MaxShare}
              : S \in SUBSET AllChildren(h)}

\* error series: none at all, a perfect fit, or one error of size e
ErrorSeries == {<<>>} \cup {<<0, e>> : e \in 0..MaxError}

\* error maps: every choice of series for a small hierarchy (a node without
\* forecast included), the same series for a subset of the nodes otherwise
ErrorMaps(h) ==
    IF h \in SmallHierarchies
    THEN MapsInto(NodesOf(h) \cup {Stranger}, ErrorSeries)
    ELSE UNION {{[n \in S |-> e] : e \in ErrorSeries} : S \in SUBSET NodesOf(h)}

NoKwargs ==
    [proportions |-> EmptyMap, method |-> "none", middle_level |-> "none",
     errors |-> EmptyMap]

\* the keyword arguments the model passes with each method
KwargsFor(h, method) ==
    IF method = "top_down"
    THEN {[NoKwargs EXCEPT !.proportions = props, !.method = sub]
             : props \in UNION {PartialProportionMaps(h, L) : L \in 1..MaxPropLen},
               sub \in Methods}
    ELSE IF method = "middle_out"
    THEN {[NoKwargs EXCEPT !.proportions = props, !.middle_level = middle]
             : props \in UNION {PartialProportionMaps(h, L) : L \in 1..MaxPropLen},
               middle \in NodesOf(h) \cup {Stranger}}
    ELSE IF method = "mint"
    THEN {[NoKwargs EXCEPT !.errors = errs] : errs \in ErrorMaps(h)}
    ELSE {NoKwargs}

InitReconcile ==
    /\ hierarchy \in ReconcileHierarchies
    /\ horizon = MaxHorizon
    /\ forecasts \in SubsetForecastMaps(hierarchy, horizon)
    /\ proportions = EmptyMap
    /\ levels \in {BuildLevels(hierarchy, root_list) : root_list \in ListsOf(RootNodes(hierarchy))}
    /\ bl_pc = "built" /\ bl_current = <<>> /\ bl_earlier = <<>>
    /\ rc_call = "none" /\ rc_method = "none" /\ rc_fed = FALSE
    /\ middle_level = "none" /\ errors = EmptyMap /\ rc_request = "none"
    /\ rc_result = NoResult
    /\ BtIdle
    /\ m_actual = <<>> /\ m_predicted = <<>> /\ m_result = NotCalled
    /\ ApiIdle

\* reconciler.reconcile_forecasts(forecasts, method, **kwargs)
Reconcile ==
    /\ rc_call = "none"
    /\ \E method \in ReconciliationMethod \cup {UnknownMethod} :
          \E kwargs \in KwargsFor(hierarchy, method) :
              /\ rc_request' = method
              /\ proportions' = kwargs.proportions
              /\ rc_method' = kwargs.method
              /\ middle_level' = kwargs.middle_level
              /\ errors' = kwargs.errors
              /\ rc_result' = reconcile_forecasts(hierarchy, levels, forecasts,
                                                  method, kwargs)
    /\ rc_call' = "reconcile_forecasts"
    /\ forecasts' = rc_result'.caller
    /\ UNCHANGED <<hierarchy, blVars, levels, horizon, rc_fed, btVars, metricVars, apiVars>>

NextReconcile == Reconcile

SpecReconcile == InitReconcile /\ [][NextReconcile]_vars

(***************************************************************************)
(* Direct calls of calculate_forecast_metrics.                             *)
(***************************************************************************)
InitMetrics ==
    /\ \/ /\ m_actual \in SeqsUpTo(MetricValues, MaxMetricLen)
          /\ m_predicted \in SeqsUpTo(MetricValues, MaxMetricLen)
       \/ \E e \in MetricExamples : m_actual = e[1] /\ m_predicted = e[2]
    /\ m_result = NotCalled
    /\ BtIdle
    /\ RcIdle
    /\ ApiIdle

ComputeMetrics ==
    /\ m_result.status = "not_called"
    /\ m_result' = calculate_forecast_metrics(m_actual, m_predicted)
    /\ UNCHANGED <<m_actual, m_predicted>>
    /\ UNCHANGED <<btVars, rcVars, apiVars>>

NextMetrics == ComputeMetrics

SpecMetrics == InitMetrics /\ [][NextMetrics]_vars

(***************************************************************************)
(* The API of the forecast runs: requests served by the pool's threads.     *)
(***************************************************************************)
InitRuns ==
    /\ ApiIdle
    /\ m_actual = <<>> /\ m_predicted = <<>> /\ m_result = NotCalled
    /\ BtIdle
    /\ RcIdle

Logged(run_id, field) ==
    [api_log EXCEPT ![run_id][field] = api_log[run_id][field] + 1]

\* lines 32-55: the id, the MLflow run, the ForecastRun, the store.  uuid4
\* gives an id that no run has yet (ids are opaque: they are handed out in
\* one order); the clock has moved on since it was read last
CreateRun ==
    \E req \in CreateRequests, run_id \in RunIds, t \in {now + 1} :
        /\ run_id = uuid4(runs_db)
        /\ LET run == ForecastRun(run_id, req, t, "mlflow-" \o run_id)
           IN  /\ runs_db' = StoreRun(runs_db, run)
               /\ api_response' = Response("create_run", <<req>>, 200, run)
        /\ now' = t
        /\ UNCHANGED <<results_db, api_pc, api_log, metricVars, btVars, rcVars>>

\* lines 38-44: tracker.start_forecast_run raises (no MLflow at hand); nothing
\* catches it, the server answers 500 and no run is stored
CreateRunTrackerFails ==
    \E req \in CreateRequests :
        /\ api_response' = HTTPException("create_run", <<req>>, 500, "Internal Server Error")
        /\ UNCHANGED <<runs_db, results_db, now, api_pc, api_log,
                       metricVars, btVars, rcVars>>

\* lines 58-66
ListRuns ==
    \E brand_id \in Brands \cup {NoValue}, status \in {NoValue, "pending"} :
        /\ api_response' = list_runs(runs_db, brand_id, status)
        /\ UNCHANGED <<runs_db, results_db, now, api_pc, api_log,
                       metricVars, btVars, rcVars>>

\* lines 69-74
GetRun ==
    \E run_id \in RunIds :
        /\ api_response' = get_run(runs_db, run_id)
        /\ UNCHANGED <<runs_db, results_db, now, api_pc, api_log,
                       metricVars, btVars, rcVars>>

\* lines 137-142
GetRunResult ==
    \E run_id \in RunIds :
        /\ api_response' = get_run_result(results_db, run_id)
        /\ UNCHANGED <<runs_db, results_db, now, api_pc, api_log,
                       metricVars, btVars, rcVars>>

\* lines 80-85: the two guards; run is the object the dict holds
ExecuteRunCheck(w) ==
    /\ api_pc[w].pc = "idle"
    /\ \E run_id \in RunIds :
          IF ~HasRun(runs_db, run_id)
          THEN /\ api_response' = HTTPException("execute_run", <<run_id>>, 404, "Run not found")
               /\ UNCHANGED <<api_pc, api_log>>
          ELSE IF RunOf(runs_db, run_id).status # "pending"
          THEN /\ api_response' = HTTPException("execute_run", <<run_id>>, 400,
                                                "Run already executed")
               /\ UNCHANGED <<api_pc, api_log>>
          ELSE /\ api_pc' = [api_pc EXCEPT ![w] = [pc |-> "checked", run_id |-> run_id]]
               /\ api_log' = Logged(run_id, "passed")
               /\ api_response' = NoResponse
    /\ UNCHANGED <<runs_db, results_db, now, metricVars, btVars, rcVars>>

\* lines 88-89
ExecuteRunMarkRunning(w) ==
    /\ api_pc[w].pc = "checked"
    /\ runs_db' = WithStatus(runs_db, api_pc[w].run_id, "running")
    /\ api_pc' = [api_pc EXCEPT ![w].pc = "running"]
    /\ api_response' = NoResponse
    /\ UNCHANGED <<results_db, now, api_log, metricVars, btVars, rcVars>>

\* lines 91-113: the forecast and its metrics.  An ensemble run raises at line
\* 98; the forecast of an arima or xgboost run, or the logging of its metrics,
\* comes back or raises
ExecuteRunForecast(w) ==
    /\ api_pc[w].pc = "running"
    /\ IF RunOf(runs_db, api_pc[w].run_id).model_type \notin {"arima", "xgboost"}
       THEN /\ api_pc' = [api_pc EXCEPT ![w].pc = "except"]
            /\ UNCHANGED api_log
       ELSE /\ \E next \in {"computed", "except"} :
                  api_pc' = [api_pc EXCEPT ![w].pc = next]
            /\ api_log' = Logged(api_pc[w].run_id, "forecasts")
    /\ api_response' = NoResponse
    /\ UNCHANGED <<runs_db, results_db, now, metricVars, btVars, rcVars>>

\* lines 115-122
ExecuteRunStore(w) ==
    /\ api_pc[w].pc = "computed"
    /\ results_db' = Put(results_db, api_pc[w].run_id,
                         ForecastResult(RunOf(runs_db, api_pc[w].run_id), w))
    /\ api_log' = Logged(api_pc[w].run_id, "written")
    /\ api_pc' = [api_pc EXCEPT ![w].pc = "stored"]
    /\ api_response' = NoResponse
    /\ UNCHANGED <<runs_db, now, metricVars, btVars, rcVars>>

\* lines 125-129; the clock is read as it stands
ExecuteRunComplete(w) ==
    /\ api_pc[w].pc = "stored"
    /\ runs_db' = WithCompletedAt(WithStatus(runs_db, api_pc[w].run_id, "completed"),
                                  api_pc[w].run_id, now)
    /\ api_response' = Response("execute_run", <<api_pc[w].run_id>>, 200,
                                ForecastResult(RunOf(runs_db, api_pc[w].run_id), w))
    /\ api_pc' = [api_pc EXCEPT ![w] = IdleWorker]
    /\ UNCHANGED <<results_db, now, api_log, metricVars, btVars, rcVars>>

\* lines 131-134
ExecuteRunFail(w) ==
    /\ api_pc[w].pc = "except"
    /\ runs_db' = WithStatus(runs_db, api_pc[w].run_id, "failed")
    /\ api_response' = HTTPException("execute_run", <<api_pc[w].run_id>>, 500,
                                     "Execution failed")
    /\ api_pc' = [api_pc EXCEPT ![w] = IdleWorker]
    /\ UNCHANGED <<results_db, now, api_log, metricVars, btVars, rcVars>>

NextRuns ==
    \/ CreateRun
    \/ CreateRunTrackerFails
    \/ ListRuns
    \/ GetRun
    \/ GetRunResult
    \/ \E w \in Workers : ExecuteRunCheck(w)
    \/ \E w \in Workers : ExecuteRunMarkRunning(w)
    \/ \E w \in Workers : ExecuteRunForecast(w)
    \/ \E w \in Workers : ExecuteRunStore(w)
    \/ \E w \in Workers : ExecuteRunComplete(w)
    \/ \E w \in Workers : ExecuteRunFail(w)

SpecRuns == InitRuns /\ [][NextRuns]_vars


(***************************************************************************)
(* The claims about bottom_up_reconcile, under SpecBottomUp.               *)
(***************************************************************************)
\* no node is listed as a child twice, and the levels hold every node
StrictTree ==
    /\ \A p, q \in Parents(hierarchy) :
          \A j \in DOMAIN hierarchy.children[p], k \in DOMAIN hierarchy.children[q] :
              hierarchy.children[p][j] = hierarchy.children[q][k] => (p = q /\ j = k)
    /\ Range(Concat(levels)) = NodesOf(hierarchy)

\* the sum at step t of the vectors that map holds for the nodes listed
RECURSIVE SumPresent(_, _, _)
SumPresent(map, nodes, t) ==
    IF nodes = <<>> THEN FromInt(0)
    ELSE IF Head(nodes) \in DOMAIN map
         THEN FAdd(map[Head(nodes)][t], SumPresent(map, Tail(nodes), t))
         ELSE SumPresent(map, Tail(nodes), t)

HasChildIn(map, p) ==
    \E j \in DOMAIN hierarchy.children[p] : hierarchy.children[p][j] \in DOMAIN map

\* every parent with a child in the map is in the map and is, step by step, the
\* sum of its children in the map
SumConsistent(map) ==
    \A p \in Parents(hierarchy) :
        HasChildIn(map, p) =>
            /\ p \in DOMAIN map
            /\ Len(map[p]) = horizon
            /\ \A t \in 1..horizon :
                  map[p][t] = SumPresent(map, hierarchy.children[p], t)

\* C1: for a strict tree and any forecast map of one horizon, bottom_up returns
\* (children without a forecast raise nothing), and in its result every parent
\* with at least one child present equals, at every step, the sum of its
\* children present in the result.
C1_ParentIsSumOfChildren ==
    (rc_call = "bottom_up" /\ StrictTree) =>
        /\ rc_result.status = "returned"
        /\ SumConsistent(rc_result.reconciled)

\* three levels, A2 without a forecast: A becomes A1, Total becomes A + B
C1_Witness ==
    /\ rc_call = "bottom_up"
    /\ hierarchy = ThreeLevels
    /\ {"Total", "A", "B", "A1"} \subseteq DOMAIN forecasts
    /\ "A2" \notin DOMAIN forecasts
    /\ forecasts["A"] # forecasts["A1"]
    /\ rc_result.reconciled["A"] = forecasts["A1"]
    /\ rc_result.reconciled["Total"] = VecSum(<<forecasts["A1"], forecasts["B"]>>)
    /\ rc_result.reconciled["Total"] # forecasts["Total"]

\* C2: bottom_up never changes a leaf: every node of the input that is no key of
\* the hierarchy keeps exactly its input vector, and only parents are written.
C2_LeavesUnchanged ==
    rc_call = "bottom_up" =>
        /\ \A n \in DOMAIN forecasts :
              n \notin Parents(hierarchy) =>
                  /\ n \in DOMAIN rc_result.reconciled
                  /\ rc_result.reconciled[n] = forecasts[n]
        /\ \A n \in DOMAIN rc_result.reconciled :
              (n \notin DOMAIN forecasts \/ rc_result.reconciled[n] # forecasts[n])
                  => n \in Parents(hierarchy)

\* {Total: [A, B]}, A = [10,20], B = [5,15] gives Total = [15,35], A and B as given
C2_Witness ==
    /\ rc_call = "bottom_up"
    /\ hierarchy = TwoLeaves
    /\ forecasts = BottomUpExample.forecasts
    /\ DOMAIN rc_result.reconciled = {"Total", "A", "B"}
    /\ rc_result.reconciled["Total"] = FVec(<<15, 35>>)
    /\ rc_result.reconciled["A"] = FVec(<<10, 20>>)
    /\ rc_result.reconciled["B"] = FVec(<<5, 15>>)

\* C3: bottom_up is idempotent on a tree: run on its own result it returns that
\* result, and run on any map in which every parent already is the sum of its
\* children it returns that map, every value unchanged.
C3_Idempotent ==
    (rc_call = "bottom_up" /\ StrictTree) =>
        /\ rc_fed => rc_result.reconciled = forecasts
        /\ SumConsistent(forecasts) => rc_result.reconciled = forecasts

\* the second run over three levels, on a map the first run had to change
C3_Witness ==
    /\ rc_call = "bottom_up"
    /\ rc_fed
    /\ hierarchy = ThreeLevels
    /\ {"Total", "A", "B", "A1", "A2"} \subseteq DOMAIN forecasts
    /\ rc_result.reconciled = forecasts

(***************************************************************************)
(* The claims about top_down_reconcile, under SpecTopDown.                 *)
(***************************************************************************)
\* every child of every parent has a series of positive shares
SharesGiven ==
    \A c \in AllChildren(hierarchy) :
        /\ c \in DOMAIN proportions
        /\ proportions[c] # <<>>
        /\ \A k \in DOMAIN proportions[c] : proportions[c][k] > 0

\* the parents top_down disaggregates
Disaggregated ==
    {p \in Parents(hierarchy) : p \in DOMAIN forecasts /\ hierarchy.children[p] # <<>>}

\* C4, as claimed: with each sub-method, for every parent with a forecast and
\* children, whatever the number of children and the length of the series of
\* (positive) shares, the normalised proportions applied to the children sum
\* to 1 and, at every step, the vectors assigned to the children sum to the
\* parent's forecast.
C4_AsClaimed ==
    (rc_call = "top_down" /\ rc_result.status = "returned" /\ StrictTree /\ SharesGiven) =>
        \A p \in Disaggregated :
           /\ p \in DOMAIN rc_result.applied
           /\ FSumSeq(rc_result.applied[p]) = FromInt(1)
           /\ \A t \in 1..horizon :
                 SumPresent(rc_result.reconciled, hierarchy.children[p], t)
                     = forecasts[p][t]

\* what is left of C4 in the code: the sub-method last, and the other two when
\* the series have as many entries as the parent has children
C4_WhereItHolds ==
    (rc_call = "top_down" /\ StrictTree /\ SharesGiven
        /\ (rc_method = "last"
            \/ \A p \in Disaggregated, c \in AllChildren(hierarchy) :
                  Len(proportions[c]) = Len(hierarchy.children[p]))) =>
        /\ rc_result.status = "returned"
        /\ \A p \in Disaggregated :
              /\ p \in DOMAIN rc_result.applied
              /\ FSumSeq(rc_result.applied[p]) = FromInt(1)
              /\ \A t \in 1..horizon :
                    SumPresent(rc_result.reconciled, hierarchy.children[p], t)
                        = forecasts[p][t]

(***************************************************************************)
(* The claims about rolling_window_backtest, under SpecBacktest.           *)
(***************************************************************************)
LastCall == bt_calls[Len(bt_calls)]

ForecastFailed == bt_calls # <<>> /\ LastCall.outcome = "raised"

\* C5: at every rolling step, every element of the training window handed to
\* the forecasting function sits at a position of the series strictly below
\* train_end, the position of the actual under test; the function is given
\* neither the value being predicted nor a later one.
C5_NoLookAhead ==
    \A c \in 1..Len(bt_calls) :
        /\ bt_calls[c].train_end = Len(series) - test_periods + bt_calls[c].step
        /\ Len(bt_calls[c].train_series) = Len(bt_calls[c].idx)
        /\ \A j \in 1..Len(bt_calls[c].idx) :
              /\ bt_calls[c].idx[j] >= 0
              /\ bt_calls[c].idx[j] < bt_calls[c].train_end
              /\ bt_calls[c].train_series[j] = series[bt_calls[c].idx[j] + 1]

\* a later step whose window is full and ends right before the actual
C5_Witness ==
    /\ bt_pc = "forecast"
    /\ bt_i >= 1
    /\ window_size >= 2
    /\ Len(LastCall.idx) = window_size
    /\ LastCall.idx[window_size] = LastCall.train_end - 1

\* C6: with step_size = 1 (and a series of at least window_size + test_periods
\* values) a backtest that returns has produced exactly test_periods records,
\* whose actuals are, in order, the last test_periods values of the series, and
\* the window of each record is exactly the window_size values right before
\* its actual.
C6_Windowing ==
    (bt_pc = "done" /\ step_size = 1) =>
        /\ Len(series) >= window_size + test_periods
        /\ Len(bt_result.results_df) = test_periods
        /\ Len(bt_calls) = test_periods
        /\ \A k \in 1..test_periods :
              LET pos == Len(series) - test_periods + k   \* from 1
              IN  /\ bt_result.results_df[k].actual = series[pos]
                  /\ bt_calls[k].train_series = SubSeq(series, pos - window_size, pos - 1)

\* [10 .. 16], window 3, 2 test periods: [12,13,14] -> 15, then [13,14,15] -> 16
C6_Witness ==
    /\ bt_pc = "done"
    /\ series = <<10, 11, 12, 13, 14, 15, 16>>
    /\ window_size = 3 /\ test_periods = 2 /\ step_size = 1
    /\ Len(bt_result.results_df) = 2
    /\ bt_result.results_df[1].actual = 15 /\ bt_result.results_df[2].actual = 16
    /\ bt_calls[1].train_series = <<12, 13, 14>>
    /\ bt_calls[2].train_series = <<13, 14, 15>>

\* C7: on a series shorter than window_size + test_periods the backtest fails
\* with the series-too-short error (InsufficientHistory) before the forecasting
\* function is invoked once, and returns neither records nor metrics.
C7_InsufficientHistory ==
    (Len(series) < window_size + test_periods /\ bt_pc # "start") =>
        /\ bt_pc = "raised"
        /\ bt_result.status = "raised"
        /\ bt_result.error = SeriesTooShort
        /\ bt_result.results_df = <<>>
        /\ bt_result.metrics.status = "not_called"
        /\ bt_calls = <<>>

\* a series long enough for the window alone, but not for the test periods too
C7_Witness ==
    /\ bt_pc = "raised"
    /\ Len(series) >= window_size
    /\ Len(series) >= test_periods
    /\ window_size >= 1
    /\ Len(series) < window_size + test_periods
    /\ bt_calls = <<>>

MetricsCalled == m_result.status # "not_called"

\* C9: on numeric input of one length >= 1 the metrics calculation never fails,
\* and reports mape = +inf when no actual is nonzero, wape = +inf when the
\* actuals sum to 0, and mase = +inf when all consecutive actuals are equal
\* (mean absolute difference 0) or there are fewer than 2 actuals.
C9_Sentinels ==
    (MetricsCalled /\ Len(m_actual) = Len(m_predicted) /\ Len(m_actual) >= 1) =>
        /\ m_result.status = "returned"
        /\ (\A j \in 1..Len(m_actual) : m_actual[j] = 0)
              => m_result.metrics.mape = Inf
        /\ SumSeq(m_actual) = 0
              => m_result.metrics.wape = Inf
        /\ (Len(m_actual) < 2
            \/ \A j \in 1..(Len(m_actual) - 1) : m_actual[j + 1] = m_actual[j])
              => m_result.metrics.mase = Inf

\* actual [0,0,0], predicted [1,2,3]: mape = wape = +inf, nothing raised
C9_Witness ==
    /\ m_actual = <<0, 0, 0>> /\ m_predicted = <<1, 2, 3>>
    /\ m_result.status = "returned"
    /\ m_result.metrics.mape = Inf
    /\ m_result.metrics.wape = Inf

KeySet(h) == Range(h.keys)

\* how often child c is listed under parent p
Listings(h, p, c) ==
    Cardinality({j \in DOMAIN h.children[p] : h.children[p][j] = c})

ListedUnder(h, c) == {p \in KeySet(h) : Listings(h, p, c) > 0}

Mentioned(h) == KeySet(h) \cup UNION {Range(h.children[p]) : p \in KeySet(h)}

RootKeys(h) == {p \in KeySet(h) : ListedUnder(h, p) = {}}

\* the nodes reached from the nodes of S in one to k steps down
RECURSIVE Below(_, _, _)
Below(h, S, k) ==
    IF k = 0 THEN {}
    ELSE LET kids == {c \in Mentioned(h) : ListedUnder(h, c) \cap S # {}}
         IN  kids \cup Below(h, kids, k - 1)

HasCycle(h) == \E n \in Mentioned(h) : n \in Below(h, {n}, Cardinality(Mentioned(h)))

SharedChildren(h) == {c \in Mentioned(h) : Cardinality(ListedUnder(h, c)) > 1}

\* how often node n stands in the levels
Occurrences(n, lvls) ==
    LET flat == Concat(lvls) IN Cardinality({j \in DOMAIN flat : flat[j] = n})

RECURSIVE SumOver(_, _, _, _)
SumOver(h, lvls, c, ps) ==
    IF ps = {} THEN 0
    ELSE LET p == CHOOSE q \in ps : TRUE
         IN  Occurrences(p, lvls) * Listings(h, p, c) + SumOver(h, lvls, c, ps \ {p})

\* the children lists of the nodes of a level, one after the other
RECURSIVE ChildrenInOrder(_, _)
ChildrenInOrder(h, level) ==
    IF level = <<>> THEN <<>>
    ELSE (IF Head(level) \in KeySet(h) THEN h.children[Head(level)] ELSE <<>>)
         \o ChildrenInOrder(h, Tail(level))

RootsInKeyOrder(h) == SelectSeq(h.keys, LAMBDA p : p \in RootKeys(h))

C12_AsClaimed ==
    HasCycle(hierarchy) =>
        /\ bl_pc # "built"
        /\ Len(levels) <= Cardinality(KeySet(hierarchy)) + 1

C20_AsClaimed ==
    (bl_pc = "built" /\ bl_earlier # <<>>) =>
        /\ levels = bl_earlier[1]
        /\ levels # <<>> => levels[1] = RootsInKeyOrder(hierarchy)
        /\ \A k \in 1..(Len(levels) - 1) :
              levels[k + 1] = ChildrenInOrder(hierarchy, levels[k])

(***************************************************************************)
(* The four methods behind reconcile_forecasts (SpecReconcile).            *)
(***************************************************************************)
Dispatched == rc_call = "reconcile_forecasts"

\* the vectors of the children of parent p that have an entry in map
ChildVectors(map, p) ==
    LET present == SelectSeq(hierarchy.children[p], LAMBDA c : c \in DOMAIN map)
    IN  [j \in 1..Len(present) |-> map[present[j]]]

\* C14: a call of any of the four methods leaves the hierarchy and the
\* caller's forecast map as they were (the same keys, the same vectors), and
\* what it returns is a dict made within the call.
C14_InputsUntouched ==
    [][(rc_call = "none" /\ rc_call' = "reconcile_forecasts"
            /\ rc_request' \in ReconciliationMethod) =>
          /\ hierarchy' = hierarchy /\ levels' = levels
          /\ DOMAIN forecasts' = DOMAIN forecasts
          /\ \A n \in DOMAIN forecasts : forecasts'[n] = forecasts[n]
          /\ rc_result'.caller = forecasts
          /\ rc_result'.status = "returned" => rc_result'.object = "new"]_vars

\* a middle_out call that summed the pivot's children into its copy, the
\* caller's entry of the pivot still holding another vector
C14_Witness ==
    /\ Dispatched /\ rc_request = "middle_out"
    /\ rc_result.status = "returned"
    /\ middle_level \in Parents(hierarchy) \cap DOMAIN forecasts
    /\ ChildVectors(forecasts, middle_level) # <<>>
    /\ forecasts[middle_level] # VecSum(ChildVectors(forecasts, middle_level))

\* C16: reconcile_forecasts with a method that is none of top_down,
\* bottom_up, middle_out, mint raises ValueError (unknown reconciliation
\* method) and reconciles nothing; with one of the four it returns what that
\* strategy returns for the forecasts and the keyword arguments passed.
C16_Dispatch ==
    Dispatched =>
        /\ rc_request \notin ReconciliationMethod =>
              /\ rc_result.status = "raised" /\ rc_result.error = "ValueError"
              /\ rc_result.reconciled = <<>>
        /\ rc_request = "top_down" =>
              rc_result = top_down_reconcile(hierarchy, levels, forecasts,
                                             proportions, rc_method)
        /\ rc_request = "bottom_up" =>
              rc_result = bottom_up_reconcile(hierarchy, levels, forecasts)
        /\ rc_request = "middle_out" =>
              rc_result = middle_out_reconcile(hierarchy, levels, forecasts,
                                               middle_level, proportions)
        /\ rc_request = "mint" => rc_result = mint_reconcile(forecasts, errors)

C16_Witness ==
    /\ Dispatched /\ rc_request = UnknownMethod
    /\ rc_result.status = "raised" /\ rc_result.error = "ValueError"
    /\ DOMAIN forecasts = NodesOf(hierarchy) /\ Parents(hierarchy) # {}

\* a parent with a forecast, so one top_down disaggregates, one of whose
\* children has no entry in proportions
LacksProportions ==
    \E p \in Parents(hierarchy) \cap DOMAIN forecasts :
        \E j \in DOMAIN hierarchy.children[p] :
            hierarchy.children[p][j] \notin DOMAIN proportions

\* C15: top_down, and middle_out through it, raises the error of the missing
\* proportions entry (the KeyError of the lookup) and returns nothing when a
\* child of a parent being disaggregated has no entry in proportions.
C15_AsClaimed ==
    (Dispatched /\ rc_request \in {"top_down", "middle_out"} /\ LacksProportions) =>
        /\ rc_result.status = "raised"
        /\ rc_result.error = "KeyError"
        /\ rc_result.reconciled = <<>>

\* where C15 holds: the sub-method 'last', which takes one proportion a child
C15_WhereItHolds ==
    (Dispatched /\ rc_request = "top_down" /\ rc_method = "last"
        /\ LacksProportions /\ \A c \in DOMAIN proportions : proportions[c] # <<>>) =>
        /\ rc_result.status = "raised"
        /\ rc_result.error = "KeyError"
        /\ rc_result.reconciled = <<>>

\* the nodes above node n
Ancestors(h, n) == {a \in KeySet(h) : n \in Below(h, {a}, Cardinality(Mentioned(h)))}

\* node p stands in map with the sum of the vectors of all its children
SumOfChildrenIn(map, p) ==
    /\ p \in DOMAIN map
    /\ \A j \in DOMAIN hierarchy.children[p] : hierarchy.children[p][j] \in DOMAIN map
    /\ map[p] = VecSum([j \in DOMAIN hierarchy.children[p] |->
                           map[hierarchy.children[p][j]]])

\* C17: after middle_out every ancestor of the pivot stands in the result
\* with the sum, step by step, of its children's result vectors.
C17_AsClaimed ==
    (Dispatched /\ rc_request = "middle_out" /\ rc_result.status = "returned"
        /\ StrictTree) =>
        \A a \in Ancestors(hierarchy, middle_level) :
            SumOfChildrenIn(rc_result.reconciled, a)

\* C18: after middle_out the pivot stands in the result with the sum, step by
\* step, of the result vectors of its children.
C18_AsClaimed ==
    (Dispatched /\ rc_request = "middle_out" /\ rc_result.status = "returned"
        /\ StrictTree /\ middle_level \in Parents(hierarchy)
        /\ hierarchy.children[middle_level] # <<>>) =>
        SumOfChildrenIn(rc_result.reconciled, middle_level)

\* the variance of a series from its sums: (n * sum(x^2) - sum(x)^2) / n^2
VarianceOf(x) ==
    LET n == Len(x)
        squares == SumSeq([j \in 1..n |-> x[j] * x[j]])
    IN  Num(n * squares - SumSeq(x) * SumSeq(x), n * n)

\* 1 / (variance(x) + 1e-8)
InverseVariance(x) == EDiv(EOne, EAdd(EFromFloat(VarianceOf(x)), Epsilon))

RECURSIVE InverseVarianceSum(_, _)
InverseVarianceSum(errs, nodes) ==
    IF nodes = {} THEN EZero
    ELSE LET n == CHOOSE m \in nodes : TRUE
         IN  EAdd(InverseVariance(errs[n]), InverseVarianceSum(errs, nodes \ {n}))

RECURSIVE WeightSum(_, _)
WeightSum(weights, nodes) ==
    IF nodes = {} THEN EZero
    ELSE LET n == CHOOSE m \in nodes : TRUE
         IN  EAdd(weights[n], WeightSum(weights, nodes \ {n}))

\* an error series, and not an empty one, for every node with a forecast
ErrorSeriesPerNode ==
    /\ DOMAIN forecasts \subseteq DOMAIN errors
    /\ \A n \in DOMAIN errors : errors[n] # <<>>

MintCalled == Dispatched /\ rc_request = "mint"

OwnFigure(c, method) ==
    IF method = "last"
    THEN FromInt(proportions[c][Len(proportions[c])])
    ELSE MeanInt(proportions[c])

OwnFigures(p, method) ==
    [j \in DOMAIN hierarchy.children[p] |-> OwnFigure(hierarchy.children[p][j], method)]

\* C22: under every sub-method, whatever the number of children and the
\* length of the series, the proportion top_down applies to a child is the
\* child's own figure (mean of its series, or its last share) divided by the
\* sum of these figures over the parent's children.
C22_AsClaimed ==
    (rc_call = "top_down" /\ StrictTree /\ SharesGiven) =>
        /\ rc_result.status = "returned"
        /\ \A p \in Disaggregated :
              /\ p \in DOMAIN rc_result.applied
              /\ DOMAIN rc_result.applied[p] = DOMAIN hierarchy.children[p]
              /\ \A j \in DOMAIN hierarchy.children[p] :
                    rc_result.applied[p][j]
                        = FDiv(OwnFigures(p, rc_method)[j],
                               FSumSeq(OwnFigures(p, rc_method)))

\* what is left of C22 in the code: the sub-method last
C22_WhereItHolds ==
    (rc_call = "top_down" /\ StrictTree /\ SharesGiven /\ rc_method = "last") =>
        /\ rc_result.status = "returned"
        /\ \A p \in Disaggregated :
              /\ p \in DOMAIN rc_result.applied
              /\ DOMAIN rc_result.applied[p] = DOMAIN hierarchy.children[p]
              /\ \A j \in DOMAIN hierarchy.children[p] :
                    rc_result.applied[p][j]
                        = FDiv(OwnFigures(p, "last")[j], FSumSeq(OwnFigures(p, "last")))

\* C23: after top_down every parent that stands in the result is, step by
\* step, the sum of the result vectors of its children, whatever forecasts the
\* nodes between root and leaves carried.
C23_AsClaimed ==
    (rc_call = "top_down" /\ rc_result.status = "returned" /\ StrictTree
        /\ SharesGiven) =>
        \A p \in Parents(hierarchy) \cap DOMAIN rc_result.reconciled :
            hierarchy.children[p] # <<>> => SumOfChildrenIn(rc_result.reconciled, p)

\* the children of the parents that have a forecast
Overwritten == UNION {Range(hierarchy.children[p]) : p \in Disaggregated}

\* C24: what top_down, and middle_out, returns holds a vector for every node
\* of the forecast map passed in, the input vector for the nodes that are not
\* a child of a disaggregated parent.
C24_AsClaimed ==
    (Dispatched /\ rc_request \in {"top_down", "middle_out"}
        /\ rc_result.status = "returned") =>
        \A n \in DOMAIN forecasts :
            /\ n \in DOMAIN rc_result.reconciled
            /\ n \notin Overwritten => rc_result.reconciled[n] = forecasts[n]

(***************************************************************************)
(* More about calculate_forecast_metrics (SpecMetrics).                     *)
(***************************************************************************)
\* sum(|actual - predicted|) over the positions of actual
AbsoluteErrorSum ==
    SumSeq([j \in 1..Len(m_actual) |->
               IF m_actual[j] >= m_predicted[j]
               THEN m_actual[j] - m_predicted[j]
               ELSE m_predicted[j] - m_actual[j]])

WapeDefined ==
    /\ MetricsCalled
    /\ Len(m_actual) = Len(m_predicted) /\ Len(m_actual) >= 1
    /\ SumSeq(m_actual) # 0

\* C25, as claimed: for arrays of one length >= 1 with sum(actual) # 0 the
\* reported wape is the plain ratio sum(|actual - predicted|) / sum(actual).
C25_AsClaimed ==
    WapeDefined =>
        /\ m_result.status = "returned"
        /\ m_result.metrics.wape = Num(AbsoluteErrorSum, SumSeq(m_actual))

\* C25, amended: the reported wape is that ratio as a percentage,
\* 100 * sum(|actual - predicted|) / sum(actual).
C25_WapeIsPercentage ==
    WapeDefined =>
        /\ m_result.status = "returned"
        /\ m_result.metrics.wape = Num(100 * AbsoluteErrorSum, SumSeq(m_actual))

\* actual [10,10], predicted [5,5]: wape = 50, not 0.5
C25_Witness ==
    /\ m_actual = <<10, 10>> /\ m_predicted = <<5, 5>>
    /\ m_result.status = "returned"
    /\ m_result.metrics.wape = FromInt(50)
    /\ m_result.metrics.wape # Num(1, 2)

(***************************************************************************)
(* More about rolling_window_backtest (SpecBacktest).                       *)
(***************************************************************************)
\* the offset of the j-th rolling step (j from 1)
OffsetOf(j) == (j - 1) * step_size

\* the values of series at the positions lo .. hi - 1 (positions from 0)
Stretch(lo, hi) == [j \in 1..(hi - lo) |-> series[lo + j]]

\* the window of the step at offset k, from the arguments of the call alone
WindowAt(k) ==
    LET te == Len(series) - test_periods + k
    IN  Stretch(IF te - window_size > 0 THEN te - window_size ELSE 0, te)

BacktestCalled == bt_pc \notin {"idle", "start"}

\* C26: forecast_func is invoked once per rolling step, in increasing step
\* order, each invocation over before the next begins, and the window of the
\* step at offset i is a function of series, window_size, test_periods and i,
\* whatever the earlier invocations returned.
C26_OneCallPerStep ==
    BacktestCalled =>
        /\ \A j \in 1..Len(bt_calls) :
              /\ bt_calls[j].step = OffsetOf(j)
              /\ bt_calls[j].train_series = WindowAt(bt_calls[j].step)
              /\ j < Len(bt_calls) => bt_calls[j].outcome = "returned"
        /\ Len(predictions) = Cardinality({j \in 1..Len(bt_calls) :
                                              bt_calls[j].outcome = "returned"})
        /\ bt_pc = "forecast" <=>
              (bt_calls # <<>> /\ bt_calls[Len(bt_calls)].outcome = "running")
        /\ bt_pc = "done" =>
              \A j \in 1..Len(bt_calls) : bt_calls[j].outcome = "returned"

\* two steps done, with two different predictions, and a third under way
C26_Witness ==
    /\ bt_pc = "forecast"
    /\ Len(bt_calls) = 3
    /\ Len(predictions) = 2 /\ predictions[1] # predictions[2]
    /\ bt_calls[3].train_series = WindowAt(bt_calls[3].step)
    /\ bt_calls[3].train_series # <<>>

\* C27: when len(series) >= window_size + test_periods, train_end -
\* window_size is never negative, so train_start is train_end - window_size
\* and every window has exactly window_size elements.
C27_WindowNeverClamped ==
    (BacktestCalled /\ Len(series) >= window_size + test_periods) =>
        /\ \A j \in 1..Len(bt_calls) :
              /\ bt_calls[j].train_end - window_size >= 0
              /\ Len(bt_calls[j].train_series) = window_size
              /\ \A q \in 1..window_size :
                    bt_calls[j].idx[q] = bt_calls[j].train_end - window_size + q - 1
        /\ bt_pc = "forecast" =>
              /\ train.train_start = train.train_end - window_size
              /\ Len(train.train_series) = window_size

\* no slack: len(series) = window_size + test_periods, the first window
\* starts at position 0 and the later ones have slid on
C27_Witness ==
    /\ bt_pc = "done"
    /\ window_size = 2 /\ test_periods = 2 /\ Len(series) = 4
    /\ Len(bt_calls) = 2
    /\ bt_calls[1].idx = <<0, 1>>
    /\ bt_calls[2].idx = <<1, 2>>

\* ceil(test_periods / step_size)
StepsDue == (test_periods + step_size - 1) \div step_size

\* C28: for test_periods >= 1, step_size >= 1 and a series of sufficient
\* length the loop does exactly ceil(test_periods / step_size) steps, at the
\* offsets 0, step_size, 2 * step_size, ... below test_periods; train_end lies
\* in len - test_periods .. len - 1, so series[train_end] exists, and the
\* result has one record per step, in the order of the series.
C28_StepsAndBounds ==
    (BacktestCalled /\ test_periods >= 1 /\ step_size >= 1
        /\ Len(series) >= window_size + test_periods) =>
        /\ bt_result.error # PositionOutOfBounds
        /\ Len(bt_calls) <= StepsDue
        /\ \A j \in 1..Len(bt_calls) :
              /\ bt_calls[j].step = OffsetOf(j)
              /\ bt_calls[j].step < test_periods
              /\ bt_calls[j].train_end = Len(series) - test_periods + OffsetOf(j)
              /\ bt_calls[j].train_end >= Len(series) - test_periods
              /\ bt_calls[j].train_end <= Len(series) - 1
        /\ bt_pc = "done" =>
              /\ Len(bt_calls) = StepsDue
              /\ bt_result.status = "returned"
              /\ Len(bt_result.results_df) = StepsDue
              /\ \A j \in 1..StepsDue :
                    bt_result.results_df[j].actual
                        = series[Len(series) - test_periods + OffsetOf(j) + 1]

\* three test periods taken two at a time: two steps, at the offsets 0 and 2
C28_Witness ==
    /\ bt_pc = "done"
    /\ test_periods = 3 /\ step_size = 2
    /\ Len(bt_calls) = 2
    /\ bt_calls[1].step = 0 /\ bt_calls[2].step = 2
    /\ Len(bt_result.results_df) = 2

(***************************************************************************)
(* The forecast runs of the API (SpecRuns).                                 *)
(***************************************************************************)
Answered(op, code) == api_response.op = op /\ api_response.code = code

StoredUnder(run_id) == {j \in 1..Len(runs_db) : runs_db[j].run_id = run_id}

\* whether a stored run passes the filters of a list request
PassesFilters(run, brand_id, status) ==
    /\ brand_id # NoValue => run.brand_id = brand_id
    /\ status # NoValue => run.status = status

\* what holds of the stores when a response has just been sent
C21_Responses ==
    /\ Answered("create_run", 200) =>
          /\ api_response.body.status = "pending"
          /\ api_response.body.brand_id = api_response.args[1].brand_id
          /\ api_response.body.model_type = api_response.args[1].model_type
          /\ api_response.body.horizon = api_response.args[1].horizon
          /\ \E j \in 1..Len(runs_db) :
                /\ StoredUnder(api_response.body.run_id) = {j}
                /\ runs_db[j] = api_response.body
    /\ api_response.op = "get_run" =>
          IF StoredUnder(api_response.args[1]) = {}
          THEN api_response.code = 404
          ELSE /\ api_response.code = 200
               /\ \E j \in StoredUnder(api_response.args[1]) :
                     api_response.body = runs_db[j]
    /\ api_response.op = "list_runs" =>
          /\ api_response.code = 200
          /\ \A j \in 1..Len(runs_db) :
                PassesFilters(runs_db[j], api_response.args[1], api_response.args[2])
                    <=> \E k \in 1..Len(api_response.body) :
                            api_response.body[k] = runs_db[j]
    /\ \A j \in 1..Len(runs_db) :
          api_log[runs_db[j].run_id].passed = 0 => runs_db[j].status = "pending"

\* what a step does to the stored runs
C21_Steps ==
    /\ (api_response'.op = "create_run" /\ api_response'.code = 200) =>
          /\ StoredUnder(api_response'.body.run_id) = {}
          /\ runs_db' = Append(runs_db, api_response'.body)
          /\ results_db' = results_db
    /\ Len(runs_db') >= Len(runs_db)
    /\ \A j \in 1..Len(runs_db) :
          /\ runs_db'[j].run_id = runs_db[j].run_id
          /\ runs_db'[j].brand_id = runs_db[j].brand_id
          /\ runs_db'[j].model_type = runs_db[j].model_type
          /\ runs_db'[j].horizon = runs_db[j].horizon
          /\ runs_db'[j].created_at = runs_db[j].created_at

\* C21: a run that create_run answers with is pending and has the brand_id,
\* model_type and horizon of the request; it is stored under a run_id no run
\* had before, stays as it is until it is executed, and is what get_run
\* answers with and one of what list_runs answers with.
C21_CreateRun == [](C21_Responses) /\ [][C21_Steps]_vars

\* the request of test_create_run, answered after an earlier run was stored
C21_Witness ==
    /\ Answered("create_run", 200)
    /\ api_response.args[1] = [brand_id |-> "BRAND_A", model_type |-> "arima",
                               horizon |-> 12]
    /\ api_response.body.status = "pending"
    /\ Len(runs_db) = 2
    /\ runs_db[2] = api_response.body

InFlight(run_id) == \E w \in Workers : api_pc[w].run_id = run_id

StatusOf(run_id) == RunOf(runs_db, run_id).status

\* the ends of execute_run, for the runs of ids
EndsOfExecuteRun(ids) ==
    /\ (Answered("execute_run", 200) /\ api_response.args[1] \in ids) =>
          /\ StatusOf(api_response.args[1]) = "completed"
          /\ api_response.args[1] \in DOMAIN results_db
    /\ (Answered("execute_run", 500) /\ api_response.args[1] \in ids) =>
          /\ StatusOf(api_response.args[1]) = "failed"
          /\ api_response.args[1] \notin DOMAIN results_db
    /\ \A r \in ids \cap DOMAIN results_db :
          ~InFlight(r) => StatusOf(r) = "completed"
    /\ \A j \in 1..Len(runs_db) :
          (runs_db[j].run_id \in ids /\ runs_db[j].status = "running")
              => InFlight(runs_db[j].run_id)

\* the steps of the status of the runs that are in ids after the step
StatusSteps(ids) ==
    /\ \A j \in 1..Len(runs_db) :
          (runs_db[j].run_id \in ids /\ runs_db'[j].status # runs_db[j].status) =>
              \/ runs_db[j].status = "pending" /\ runs_db'[j].status = "running"
              \/ runs_db[j].status = "running" /\ runs_db'[j].status = "completed"
              \/ runs_db[j].status = "running" /\ runs_db'[j].status = "failed"
    /\ (api_response'.op = "execute_run" /\ api_response'.code = 400) =>
          /\ runs_db' = runs_db
          /\ results_db' = results_db
          /\ StatusOf(api_response'.args[1]) # "pending"

\* the runs for which at most one request passed the pending check
ExecutedOnce == {r \in RunIds : api_log[r].passed <= 1}

\* C29: a run's status goes pending -> running -> completed or failed only;
\* execute_run on a pending run ends with the run completed and a result
\* stored, or failed and no result stored, never running; on a run that is
\* not pending it answers 400 and leaves both stores alone; a result is stored
\* only for a completed run.
C29_AsClaimed == [](EndsOfExecuteRun(RunIds)) /\ [][StatusSteps(RunIds)]_vars

\* what is left of C29: the runs that one request at most took for pending
C29_WhereItHolds ==
    [](EndsOfExecuteRun(ExecutedOnce)) /\ [][StatusSteps(ExecutedOnce')]_vars

\* C30: whatever the interleaving of the requests, at most one request
\* passes the pending check of a run, the run's forecast is computed at most
\* once and at most one result is written for it.
C30_AsClaimed ==
    \A r \in RunIds :
        /\ api_log[r].passed <= 1
        /\ api_log[r].forecasts <= 1
        /\ api_log[r].written <= 1

=============================================================================
